---- MODULE Spec2Model ----
(***************************************************************************)
(* Model of robottelo/config/settings.py: the INI reader, the feature      *)
(* settings groups and Settings.configure(), with the process-wide state   *)
(* (logging, nailgun entity defaults) that configure() writes.             *)
(***************************************************************************)
EXTENDS Integers, Sequences, FiniteSets, TLC

(* ------------------------------------------------------------------ *)
(* Bounds of the model                                                  *)
(* ------------------------------------------------------------------ *)
\* number of configure() calls made on the one Settings instance
MaxCalls == 2

(* ------------------------------------------------------------------ *)
(* Python values: None, str, int, bool, list of str, and the marker of  *)
(* an exception raised instead of a value.                              *)
(* ------------------------------------------------------------------ *)
PyNone == [t |-> "None", s |-> "", n |-> 0, l |-> <<>>]
PyStr(x) == [t |-> "str", s |-> x, n |-> 0, l |-> <<>>]
PyInt(x) == [t |-> "int", s |-> "", n |-> x, l |-> <<>>]
PyBool(b) == [t |-> "bool", s |-> "", n |-> IF b THEN 1 ELSE 0, l |-> <<>>]
PyList(x) == [t |-> "list", s |-> "", n |-> 0, l |-> x]
Raised(exc) == [t |-> "raise", s |-> exc, n |-> 0, l |-> <<>>]

\* Python truth value of a value (bool(v))
Truthy(v) ==
    CASE v.t = "None" -> FALSE
      [] v.t = "str" -> v.s # ""
      [] v.t = "int" -> v.n # 0
      [] v.t = "bool" -> v.n = 1
      [] v.t = "list" -> v.l # <<>>
      [] OTHER -> TRUE

Digit(d) == <<"0", "1", "2", "3", "4", "5", "6", "7", "8", "9">>[d + 1]

RECURSIVE IntToStr(_)
IntToStr(k) == IF k < 10 THEN Digit(k) ELSE IntToStr(k \div 10) \o Digit(k % 10)

\* str(v), as '{0}'.format(v) renders it
Format(v) ==
    CASE v.t = "None" -> "None"
      [] v.t = "str" -> v.s
      [] v.t = "int" -> IntToStr(v.n)
      [] v.t = "bool" -> IF v.n = 1 THEN "True" ELSE "False"
      [] OTHER -> "?"

(* ------------------------------------------------------------------ *)
(* Casters (robottelo.config.casts and the built-in int), on the raw    *)
(* strings the modelled sources use.                                    *)
(* ------------------------------------------------------------------ *)
Lower(raw) ==
    CASE raw = "TRUE" -> "true"
      [] raw = "FALSE" -> "false"
      [] raw = "DEBUG" -> "debug"
      [] OTHER -> raw

cast_boolean(raw) ==
    IF Lower(raw) \in {"1", "true"} THEN PyBool(TRUE)
    ELSE IF Lower(raw) \in {"0", "false"} THEN PyBool(FALSE)
    ELSE Raised("CastError")

IntLiterals == ("0" :> 0) @@ ("80" :> 80) @@ ("443" :> 443) @@ ("8080" :> 8080)
               @@ ("3" :> 3) @@ ("10" :> 10)

cast_int(raw) ==
    IF raw \in DOMAIN IntLiterals THEN PyInt(IntLiterals[raw])
    ELSE Raised("ValueError")

ListLiterals == ("" :> <<"">>) @@ ("vm1" :> <<"vm1">>) @@ ("a, b ,c" :> <<"a", "b", "c">>)
                @@ ("vm1,vm2" :> <<"vm1", "vm2">>)

cast_list(raw) ==
    IF raw \in DOMAIN ListLiterals THEN PyList(ListLiterals[raw])
    ELSE PyList(<<raw>>)

LoggingLevels == ("debug" :> 10) @@ ("info" :> 20) @@ ("warning" :> 30)
                 @@ ("error" :> 40) @@ ("critical" :> 50)

cast_logging_level(raw) ==
    IF Lower(raw) \in DOMAIN LoggingLevels THEN PyInt(LoggingLevels[Lower(raw)])
    ELSE Raised("ImproperlyConfigured")

\* casts.Dict: comma-separated key:value pairs, kept here as key, value, key, ...
PyDict(x) == [t |-> "dict", s |-> "", n |-> 0, l |-> x]

DictLiterals == ("a:1,b:2" :> <<"a", "1", "b", "2">>) @@ ("k:v" :> <<"k", "v">>)

cast_dict(raw) ==
    IF raw \in DOMAIN DictLiterals THEN PyDict(DictLiterals[raw]) ELSE Raised("CastError")

\* casts.Tuple: as the list caster, the result being a tuple
PyTuple(x) == [t |-> "tuple", s |-> "", n |-> 0, l |-> x]

cast_tuple(raw) ==
    IF raw \in DOMAIN ListLiterals THEN PyTuple(ListLiterals[raw]) ELSE PyTuple(<<raw>>)

cast_webdriver_desired_capabilities(raw) == PyStr(raw)

(* ------------------------------------------------------------------ *)
(* INIReader                                                            *)
(* ------------------------------------------------------------------ *)
\* A parsed source: the sections present and the options set in them.
NoOptions == [p \in {} |-> ""]
NoSource == [secs |-> {}, opts |-> NoOptions]

INIReader_cast(cast, raw) ==
    CASE cast = "none" -> PyStr(raw)
      [] cast = "bool" -> cast_boolean(raw)
      [] cast = "dict" -> cast_dict(raw)
      [] cast = "list" -> cast_list(raw)
      [] cast = "tuple" -> cast_tuple(raw)
      [] cast = "int" -> cast_int(raw)
      [] cast = "logging_level" -> cast_logging_level(raw)
      [] cast = "capabilities" -> cast_webdriver_desired_capabilities(raw)

\* faulty variant: a value the cast rejects is replaced by the default
INIReader_get_forgiving(rd, section, option, default, cast) ==
    LET v == IF section \in rd.secs /\ <<section, option>> \in DOMAIN rd.opts
             THEN INIReader_cast(cast, rd.opts[<<section, option>>])
             ELSE default
    IN  IF v.t = "raise" THEN default ELSE v

\* faulty variant: the cast is applied to the default as well
INIReader_get_casting_default(rd, section, option, default, cast) ==
    IF section \in rd.secs /\ <<section, option>> \in DOMAIN rd.opts
    THEN INIReader_cast(cast, rd.opts[<<section, option>>])
    ELSE IF default.t = "str" THEN INIReader_cast(cast, default.s) ELSE default

INIReader_get(rd, section, option, default, cast) ==
    IF section \in rd.secs /\ <<section, option>> \in DOMAIN rd.opts
    THEN INIReader_cast(cast, rd.opts[<<section, option>>])
    ELSE default

\* faulty variant: every section is taken to be present
INIReader_has_section_always(rd, section) == TRUE

INIReader_has_section(rd, section) == section \in rd.secs

\* One reader.get(...) assignment of a read() method.
Assign(field, section, option, default, cast) ==
    [field |-> field, section |-> section, option |-> option,
     default |-> default, cast |-> cast]

\* Runs the assignments of a read() method in order; a failing cast raises
\* and leaves the assignments after it undone.
RECURSIVE ReadInto(_, _, _, _)
ReadInto(obj, assigns, rd, i) ==
    IF i > Len(assigns) THEN [obj |-> obj, exc |-> ""]
    ELSE LET a == assigns[i]
             v == INIReader_get(rd, a.section, a.option, a.default, a.cast)
         IN  IF v.t = "raise" THEN [obj |-> obj, exc |-> v.s]
             ELSE ReadInto([obj EXCEPT ![a.field] = v], assigns, rd, i + 1)

(* ------------------------------------------------------------------ *)
(* Feature settings groups: __init__, read(), validate()                *)
(* ------------------------------------------------------------------ *)
Unset(fields) == [f \in fields |-> PyNone]

\* vars(self).values()
Values(self) == {self[f] : f \in DOMAIN self}

\* ---- ServerSettings
ServerSettings_init ==
    Unset({"admin_password", "admin_username", "hostname", "port", "scheme",
           "ssh_key", "ssh_password", "ssh_username"})

\* faulty variant: scheme is read without a default
ServerSettings_read_no_scheme ==
    << Assign("admin_password", "server", "admin_password", PyStr("changeme"), "none"),
       Assign("admin_username", "server", "admin_username", PyStr("admin"), "none"),
       Assign("hostname", "server", "hostname", PyNone, "none"),
       Assign("port", "server", "port", PyNone, "int"),
       Assign("scheme", "server", "scheme", PyNone, "none"),
       Assign("ssh_key", "server", "ssh_key", PyNone, "none"),
       Assign("ssh_password", "server", "ssh_password", PyNone, "none"),
       Assign("ssh_username", "server", "ssh_username", PyStr("root"), "none") >>

ServerSettings_read ==
    << Assign("admin_password", "server", "admin_password", PyStr("changeme"), "none"),
       Assign("admin_username", "server", "admin_username", PyStr("admin"), "none"),
       Assign("hostname", "server", "hostname", PyNone, "none"),
       Assign("port", "server", "port", PyNone, "int"),
       Assign("scheme", "server", "scheme", PyStr("https"), "none"),
       Assign("ssh_key", "server", "ssh_key", PyNone, "none"),
       Assign("ssh_password", "server", "ssh_password", PyNone, "none"),
       Assign("ssh_username", "server", "ssh_username", PyStr("root"), "none") >>

\* faulty variant: both ssh_key and ssh_password are demanded
ServerSettings_validate_both(self) ==
    (IF self.hostname = PyNone
     THEN <<"[server] hostname must be provided.">> ELSE <<>>)
    \o (IF self.ssh_key = PyNone \/ self.ssh_password = PyNone
        THEN <<"[server] ssh_key or ssh_password must be provided.">> ELSE <<>>)

\* faulty variant: an empty value counts as missing
ServerSettings_validate_truthy(self) ==
    (IF ~Truthy(self.hostname)
     THEN <<"[server] hostname must be provided.">> ELSE <<>>)
    \o (IF ~Truthy(self.ssh_key) /\ ~Truthy(self.ssh_password)
        THEN <<"[server] ssh_key or ssh_password must be provided.">> ELSE <<>>)

ServerSettings_validate(self) ==
    (IF self.hostname = PyNone
     THEN <<"[server] hostname must be provided.">> ELSE <<>>)
    \o (IF self.ssh_key = PyNone /\ self.ssh_password = PyNone
        THEN <<"[server] ssh_key or ssh_password must be provided.">> ELSE <<>>)

ServerSettings_get_credentials(self) == <<self.admin_username, self.admin_password>>

\* six.moves.urllib.parse.urlunsplit((scheme, netloc, path, '', ''))
UsesNetloc == {"ftp", "http", "https", "file", "rsync", "svn", "sftp", "ws", "wss"}

StartsWithSlash(path) == path \in {"/", "/pub/"}

urlunsplit(scheme, netloc, path) ==
    LET url == IF netloc # "" \/ (scheme # "" /\ scheme \in UsesNetloc)
               THEN "//" \o netloc
                    \o (IF path # "" /\ ~StartsWithSlash(path) THEN "/" \o path ELSE path)
               ELSE path
    IN  IF scheme # "" THEN scheme \o ":" \o url ELSE url

ServerSettings_get_url(self) ==
    LET scheme == IF ~Truthy(self.scheme) THEN "https" ELSE self.scheme.s
    IN  IF ~Truthy(self.port)
        THEN urlunsplit(scheme, IF self.hostname = PyNone THEN "" ELSE self.hostname.s, "")
        ELSE urlunsplit(scheme, Format(self.hostname) \o ":" \o Format(self.port), "")

\* faulty variant: the pub URL follows the configured scheme
ServerSettings_get_pub_url_schemed(self) ==
    urlunsplit(IF ~Truthy(self.scheme) THEN "https" ELSE self.scheme.s,
               IF self.hostname = PyNone THEN "" ELSE self.hostname.s, "pub/")

\* urlunsplit(('http', self.hostname, 'pub/', '', ''))
ServerSettings_get_pub_url(self) ==
    urlunsplit("http", IF self.hostname = PyNone THEN "" ELSE self.hostname.s, "pub/")

\* the directory of a path: the path up to and including its last slash
Directory(path) ==
    CASE path = "/pub/" -> "/pub/"
      [] path = "/pub" -> "/"
      [] OTHER -> "/"

\* six.moves.urllib.parse.urljoin(base, url) for a base given by its scheme,
\* authority and path and a relative url with no scheme, authority or
\* leading slash: url replaces the last segment of the base's path
urljoin(scheme, netloc, path, url) ==
    IF url = "" THEN scheme \o "://" \o netloc \o path
    ELSE scheme \o "://" \o netloc \o Directory(path) \o url

\* urljoin(self.get_pub_url(), 'katello-ca-consumer-latest.noarch.rpm')
ServerSettings_get_cert_rpm_url(self) ==
    urljoin("http", IF self.hostname = PyNone THEN "" ELSE self.hostname.s, "/pub/",
            "katello-ca-consumer-latest.noarch.rpm")

\* ---- ClientsSettings
ClientsSettings_init == Unset({"image_dir", "provisioning_server"})

ClientsSettings_read ==
    << Assign("image_dir", "clients", "image_dir", PyStr("/opt/robottelo/images"), "none"),
       Assign("provisioning_server", "clients", "provisioning_server", PyNone, "none") >>

ClientsSettings_validate(self) ==
    IF self.provisioning_server = PyNone
    THEN <<"[clients] provisioning_server option must be provided.">> ELSE <<>>

\* ---- DockerSettings
DockerSettings_init == Unset({"unix_socket", "external_url"})

DockerSettings_read ==
    << Assign("unix_socket", "docker", "unix_socket", PyBool(FALSE), "bool"),
       Assign("external_url", "docker", "external_url", PyNone, "none") >>

\* faulty variant: both unix_socket and external_url are demanded
DockerSettings_validate_all(self) ==
    IF ~(\A v \in Values(self) : Truthy(v))
    THEN <<"Either [docker] unix_socket or external_url options must be provided or enabled.">>
    ELSE <<>>

DockerSettings_validate(self) ==
    IF ~(\E v \in Values(self) : Truthy(v))
    THEN <<"Either [docker] unix_socket or external_url options must be provided or enabled.">>
    ELSE <<>>

\* faulty variant: any value read for unix_socket selects the socket
DockerSettings_get_unix_socket_url_if_set(self) ==
    IF self.unix_socket # PyNone THEN PyStr("unix:///var/run/docker.sock") ELSE PyNone

DockerSettings_get_unix_socket_url(self) ==
    IF Truthy(self.unix_socket) THEN PyStr("unix:///var/run/docker.sock") ELSE PyNone

\* ---- FakeManifestSettings
FakeManifestSettings_init == Unset({"cert_url", "key_url", "url"})

FakeManifestSettings_read ==
    << Assign("cert_url", "fake_manifest", "cert_url", PyNone, "none"),
       Assign("key_url", "fake_manifest", "key_url", PyNone, "none"),
       Assign("url", "fake_manifest", "url", PyNone, "none") >>

FakeManifestSettings_validate(self) ==
    IF ~(\A v \in Values(self) : Truthy(v))
    THEN <<"All [fake_manifest] cert_url, key_url, url options must be provided.">>
    ELSE <<>>

\* ---- LDAPSettings
LDAPSettings_init == Unset({"basedn", "grpbasedn", "hostname", "password", "username"})

LDAPSettings_read ==
    << Assign("basedn", "ldap", "basedn", PyNone, "none"),
       Assign("grpbasedn", "ldap", "grpbasedn", PyNone, "none"),
       Assign("hostname", "ldap", "hostname", PyNone, "none"),
       Assign("password", "ldap", "password", PyNone, "none"),
       Assign("username", "ldap", "username", PyNone, "none") >>

\* faulty variant: an empty value counts as provided
LDAPSettings_validate_none(self) ==
    IF \E v \in Values(self) : v = PyNone
    THEN <<"All [ldap] basedn, grpbasedn, hostname, password, username options must be provided.">>
    ELSE <<>>

LDAPSettings_validate(self) ==
    IF ~(\A v \in Values(self) : Truthy(v))
    THEN <<"All [ldap] basedn, grpbasedn, hostname, password, username options must be provided.">>
    ELSE <<>>

\* ---- LibvirtHostSettings
LibvirtHostSettings_init == Unset({"libvirt_image_dir", "libvirt_hostname"})

LibvirtHostSettings_read ==
    << Assign("libvirt_image_dir", "compute_resources", "libvirt_image_dir",
              PyStr("/var/lib/libvirt/images"), "none"),
       Assign("libvirt_hostname", "compute_resources", "libvirt_hostname", PyNone, "none") >>

LibvirtHostSettings_validate(self) ==
    IF self.libvirt_hostname = PyNone
    THEN <<"[compute_resources] libvirt_hostname option must be provided.">> ELSE <<>>

\* ---- DiscoveryISOSettings
DiscoveryISOSettings_init == Unset({"discovery_iso"})

DiscoveryISOSettings_read ==
    << Assign("discovery_iso", "discovery", "discovery_iso", PyNone, "none") >>

DiscoveryISOSettings_validate(self) ==
    IF self.discovery_iso = PyNone
    THEN <<"[discovery] discovery iso name must be provided.">> ELSE <<>>

\* ---- OscapSettings
OscapSettings_init == Unset({"content_path"})

OscapSettings_read ==
    << Assign("content_path", "oscap", "content_path", PyNone, "none") >>

OscapSettings_validate(self) ==
    IF self.content_path = PyNone
    THEN <<"[oscap] content_path option must be provided.">> ELSE <<>>

\* ---- PerformanceSettings
PerformanceSettings_init ==
    Unset({"time_hammer", "cdn_address", "virtual_machines", "fresh_install_savepoint",
           "enabled_repos_savepoint", "csv_buckets_count", "sync_count", "sync_type",
           "repos"})

PerformanceSettings_read ==
    << Assign("time_hammer", "performance", "time_hammer", PyBool(FALSE), "bool"),
       Assign("cdn_address", "performance", "cdn_address", PyNone, "none"),
       Assign("virtual_machines", "performance", "virtual_machines", PyNone, "list"),
       Assign("fresh_install_savepoint", "performance", "fresh_install_savepoint",
              PyNone, "none"),
       Assign("enabled_repos_savepoint", "performance", "enabled_repos_savepoint",
              PyNone, "none"),
       Assign("csv_buckets_count", "performance", "csv_buckets_count", PyInt(10), "int"),
       Assign("sync_count", "performance", "sync_count", PyInt(3), "int"),
       Assign("sync_type", "performance", "sync_type", PyStr("sync"), "none"),
       Assign("repos", "performance", "repos", PyNone, "list") >>

\* faulty variant: one error for the four options together
PerformanceSettings_validate_together(self) ==
    IF \/ self.cdn_address = PyNone \/ self.virtual_machines = PyNone
       \/ self.fresh_install_savepoint = PyNone \/ self.enabled_repos_savepoint = PyNone
    THEN <<"[performance] cdn_address must be provided.">> ELSE <<>>

PerformanceSettings_validate(self) ==
    (IF self.cdn_address = PyNone
     THEN <<"[performance] cdn_address must be provided.">> ELSE <<>>)
    \o (IF self.virtual_machines = PyNone
        THEN <<"[performance] virtual_machines must be provided.">> ELSE <<>>)
    \o (IF self.fresh_install_savepoint = PyNone
        THEN <<"[performance] fresh_install_savepoint must be provided.">> ELSE <<>>)
    \o (IF self.enabled_repos_savepoint = PyNone
        THEN <<"[performance] enabled_repos_savepoint must be provided.">> ELSE <<>>)

\* ---- RHAISettings
RHAISettings_init == Unset({"insights_client_el6repo", "insights_client_el7repo"})

RHAISettings_read ==
    << Assign("insights_client_el6repo", "rhai", "insights_client_el6repo", PyNone, "none"),
       Assign("insights_client_el7repo", "rhai", "insights_client_el7repo", PyNone, "none") >>

\* faulty variant: the el6 repository is demanded
RHAISettings_validate_required(self) ==
    IF self.insights_client_el6repo = PyNone
    THEN <<"[rhai] insights_client_el6repo must be provided.">> ELSE <<>>

RHAISettings_validate(self) == <<>>

\* ---- TransitionSettings
TransitionSettings_init == Unset({"exported_data"})

TransitionSettings_read ==
    << Assign("exported_data", "transition", "exported_data", PyNone, "none") >>

TransitionSettings_validate(self) ==
    IF self.exported_data = PyNone
    THEN <<"[transition] exported_data must be provided.">> ELSE <<>>

\* ---- VlanNetworkSettings
VlanNetworkSettings_init == Unset({"subnet", "netmask", "gateway", "bridge"})

VlanNetworkSettings_read ==
    << Assign("subnet", "vlan_networking", "subnet", PyNone, "none"),
       Assign("netmask", "vlan_networking", "netmask", PyNone, "none"),
       Assign("gateway", "vlan_networking", "gateway", PyNone, "none"),
       Assign("bridge", "vlan_networking", "bridge", PyNone, "none") >>

VlanNetworkSettings_validate(self) ==
    IF ~(\A v \in Values(self) : Truthy(v))
    THEN <<"All [vlan_networking] subnet, netmask, gateway, bridge options must be provided.">>
    ELSE <<>>

\* ---- the optional groups, in the order configure() visits them
Features ==
    << "clients", "compute_resources", "discovery", "docker", "fake_manifest", "ldap",
       "oscap", "performance", "rhai", "transition", "vlan_networking" >>

FeatureNames == {Features[i] : i \in DOMAIN Features}

Feature_init(g) ==
    CASE g = "clients" -> ClientsSettings_init
      [] g = "compute_resources" -> LibvirtHostSettings_init
      [] g = "discovery" -> DiscoveryISOSettings_init
      [] g = "docker" -> DockerSettings_init
      [] g = "fake_manifest" -> FakeManifestSettings_init
      [] g = "ldap" -> LDAPSettings_init
      [] g = "oscap" -> OscapSettings_init
      [] g = "performance" -> PerformanceSettings_init
      [] g = "rhai" -> RHAISettings_init
      [] g = "transition" -> TransitionSettings_init
      [] g = "vlan_networking" -> VlanNetworkSettings_init

Feature_read(g) ==
    CASE g = "clients" -> ClientsSettings_read
      [] g = "compute_resources" -> LibvirtHostSettings_read
      [] g = "discovery" -> DiscoveryISOSettings_read
      [] g = "docker" -> DockerSettings_read
      [] g = "fake_manifest" -> FakeManifestSettings_read
      [] g = "ldap" -> LDAPSettings_read
      [] g = "oscap" -> OscapSettings_read
      [] g = "performance" -> PerformanceSettings_read
      [] g = "rhai" -> RHAISettings_read
      [] g = "transition" -> TransitionSettings_read
      [] g = "vlan_networking" -> VlanNetworkSettings_read

Feature_validate(g, self) ==
    CASE g = "clients" -> ClientsSettings_validate(self)
      [] g = "compute_resources" -> LibvirtHostSettings_validate(self)
      [] g = "discovery" -> DiscoveryISOSettings_validate(self)
      [] g = "docker" -> DockerSettings_validate(self)
      [] g = "fake_manifest" -> FakeManifestSettings_validate(self)
      [] g = "ldap" -> LDAPSettings_validate(self)
      [] g = "oscap" -> OscapSettings_validate(self)
      [] g = "performance" -> PerformanceSettings_validate(self)
      [] g = "rhai" -> RHAISettings_validate(self)
      [] g = "transition" -> TransitionSettings_validate(self)
      [] g = "vlan_networking" -> VlanNetworkSettings_validate(self)

\* ---- Settings: the global [robottelo] options
Settings_options_init ==
    Unset({"browser", "locale", "project", "rhel6_repo", "rhel7_repo",
           "screenshots_path", "saucelabs_key", "saucelabs_user", "run_one_datapoint",
           "upstream", "verbosity", "webdriver", "webdriver_binary",
           "webdriver_desired_capabilities", "window_manager_command"})

\* faulty variant: the webdriver option has no default
Settings_read_robottelo_settings_no_webdriver ==
    << Assign("browser", "robottelo", "browser", PyStr("selenium"), "none"),
       Assign("locale", "robottelo", "locale", PyStr("en_US.UTF-8"), "none"),
       Assign("project", "robottelo", "project", PyStr("sat"), "none"),
       Assign("rhel6_repo", "robottelo", "rhel6_repo", PyNone, "none"),
       Assign("rhel7_repo", "robottelo", "rhel7_repo", PyNone, "none"),
       Assign("screenshots_path", "robottelo", "screenshots_path",
              PyStr("/tmp/robottelo/screenshots"), "none"),
       Assign("run_one_datapoint", "robottelo", "run_one_datapoint", PyBool(FALSE), "bool"),
       Assign("upstream", "robottelo", "upstream", PyBool(TRUE), "bool"),
       Assign("verbosity", "robottelo", "verbosity", cast_logging_level("debug"),
              "logging_level"),
       Assign("webdriver", "robottelo", "webdriver", PyNone, "none"),
       Assign("saucelabs_user", "robottelo", "saucelabs_user", PyNone, "none"),
       Assign("saucelabs_key", "robottelo", "saucelabs_key", PyNone, "none"),
       Assign("webdriver_binary", "robottelo", "webdriver_binary", PyNone, "none"),
       Assign("webdriver_desired_capabilities", "robottelo",
              "webdriver_desired_capabilities", PyNone, "capabilities"),
       Assign("window_manager_command", "robottelo", "window_manager_command",
              PyNone, "none") >>

Settings_read_robottelo_settings ==
    << Assign("browser", "robottelo", "browser", PyStr("selenium"), "none"),
       Assign("locale", "robottelo", "locale", PyStr("en_US.UTF-8"), "none"),
       Assign("project", "robottelo", "project", PyStr("sat"), "none"),
       Assign("rhel6_repo", "robottelo", "rhel6_repo", PyNone, "none"),
       Assign("rhel7_repo", "robottelo", "rhel7_repo", PyNone, "none"),
       Assign("screenshots_path", "robottelo", "screenshots_path",
              PyStr("/tmp/robottelo/screenshots"), "none"),
       Assign("run_one_datapoint", "robottelo", "run_one_datapoint", PyBool(FALSE), "bool"),
       Assign("upstream", "robottelo", "upstream", PyBool(TRUE), "bool"),
       Assign("verbosity", "robottelo", "verbosity", cast_logging_level("debug"),
              "logging_level"),
       Assign("webdriver", "robottelo", "webdriver", PyStr("firefox"), "none"),
       Assign("saucelabs_user", "robottelo", "saucelabs_user", PyNone, "none"),
       Assign("saucelabs_key", "robottelo", "saucelabs_key", PyNone, "none"),
       Assign("webdriver_binary", "robottelo", "webdriver_binary", PyNone, "none"),
       Assign("webdriver_desired_capabilities", "robottelo",
              "webdriver_desired_capabilities", PyNone, "capabilities"),
       Assign("window_manager_command", "robottelo", "window_manager_command",
              PyNone, "none") >>

\* faulty variant: the saucelabs credentials are demanded whatever the browser
Settings_validate_robottelo_settings_always(self) ==
    (IF self.browser \notin {PyStr("selenium"), PyStr("docker"), PyStr("saucelabs")}
     THEN <<"[robottelo] browser should be one of selenium, docker, saucelabs.">>
     ELSE <<>>)
    \o (IF self.webdriver \notin {PyStr("chrome"), PyStr("firefox"), PyStr("ie"),
                                  PyStr("phantomjs"), PyStr("remote")}
        THEN <<"[robottelo] webdriver should be one of chrome, firefox, ie, phantomjs, remote.">>
        ELSE <<>>)
    \o (IF self.saucelabs_user = PyNone
        THEN <<"[robottelo] saucelabs_user must be provided when browser is saucelabs.">>
        ELSE <<>>)
    \o (IF self.saucelabs_key = PyNone
        THEN <<"[robottelo] saucelabs_key must be provided when browser is saucelabs.">>
        ELSE <<>>)

\* faulty variant: the webdriver is checked only when the browser is accepted
Settings_validate_robottelo_settings_elif(self) ==
    (IF self.browser \notin {PyStr("selenium"), PyStr("docker"), PyStr("saucelabs")}
     THEN <<"[robottelo] browser should be one of selenium, docker, saucelabs.">>
     ELSE IF self.webdriver \notin {PyStr("chrome"), PyStr("firefox"), PyStr("ie"),
                                    PyStr("phantomjs"), PyStr("remote")}
     THEN <<"[robottelo] webdriver should be one of chrome, firefox, ie, phantomjs, remote.">>
     ELSE <<>>)
    \o (IF self.browser = PyStr("saucelabs")
        THEN (IF self.saucelabs_user = PyNone
              THEN <<"[robottelo] saucelabs_user must be provided when browser is saucelabs.">>
              ELSE <<>>)
             \o (IF self.saucelabs_key = PyNone
                 THEN <<"[robottelo] saucelabs_key must be provided when browser is saucelabs.">>
                 ELSE <<>>)
        ELSE <<>>)

Settings_validate_robottelo_settings(self) ==
    (IF self.browser \notin {PyStr("selenium"), PyStr("docker"), PyStr("saucelabs")}
     THEN <<"[robottelo] browser should be one of selenium, docker, saucelabs.">>
     ELSE <<>>)
    \o (IF self.webdriver \notin {PyStr("chrome"), PyStr("firefox"), PyStr("ie"),
                                  PyStr("phantomjs"), PyStr("remote")}
        THEN <<"[robottelo] webdriver should be one of chrome, firefox, ie, phantomjs, remote.">>
        ELSE <<>>)
    \o (IF self.browser = PyStr("saucelabs")
        THEN (IF self.saucelabs_user = PyNone
              THEN <<"[robottelo] saucelabs_user must be provided when browser is saucelabs.">>
              ELSE <<>>)
             \o (IF self.saucelabs_key = PyNone
                 THEN <<"[robottelo] saucelabs_key must be provided when browser is saucelabs.">>
                 ELSE <<>>)
        ELSE <<>>)

(* ------------------------------------------------------------------ *)
(* Settings files the environment can hold                              *)
(* ------------------------------------------------------------------ *)
Section(name, options) ==
    [secs |-> {name},
     opts |-> [p \in {<<name, o>> : o \in DOMAIN options} |-> options[p[2]]]]

Bare(name) == [secs |-> {name}, opts |-> NoOptions]

\* the sections of a and of b in one file (an option of b wins)
With(a, b) == [secs |-> a.secs \cup b.secs, opts |-> b.opts @@ a.opts]

ServerOK == Section("server", ("hostname" :> "h") @@ ("ssh_password" :> "x"))

ValidFeature(g) ==
    CASE g = "clients" -> Section(g, "provisioning_server" :> "prov")
      [] g = "compute_resources" -> Section(g, "libvirt_hostname" :> "lv")
      [] g = "discovery" -> Section(g, "discovery_iso" :> "iso")
      [] g = "docker" -> Section(g, "unix_socket" :> "true")
      [] g = "fake_manifest" ->
            Section(g, ("cert_url" :> "c") @@ ("key_url" :> "k") @@ ("url" :> "u"))
      [] g = "ldap" ->
            Section(g, ("basedn" :> "b") @@ ("grpbasedn" :> "g") @@ ("hostname" :> "lh")
                       @@ ("password" :> "pw") @@ ("username" :> "un"))
      [] g = "oscap" -> Section(g, "content_path" :> "cp")
      [] g = "performance" ->
            Section(g, ("cdn_address" :> "cdn") @@ ("virtual_machines" :> "vm1,vm2")
                       @@ ("fresh_install_savepoint" :> "s1")
                       @@ ("enabled_repos_savepoint" :> "s2"))
      [] g = "rhai" -> Section(g, "insights_client_el6repo" :> "r6")
      [] g = "transition" -> Section(g, "exported_data" :> "ed")
      [] g = "vlan_networking" ->
            Section(g, ("subnet" :> "sn") @@ ("netmask" :> "nm") @@ ("gateway" :> "gw")
                       @@ ("bridge" :> "br"))

RECURSIVE AllFeatures(_, _)
AllFeatures(valid, i) ==
    IF i = 0 THEN NoSource
    ELSE With(AllFeatures(valid, i - 1),
              IF valid THEN ValidFeature(Features[i]) ELSE Bare(Features[i]))

Minimal == ServerOK

AllValid == With(ServerOK, AllFeatures(TRUE, Len(Features)))

AllBroken ==
    With(Section("robottelo", ("browser" :> "opera") @@ ("webdriver" :> "lynx")),
         AllFeatures(FALSE, Len(Features)))

NoServerSection == ValidFeature("clients")

SauceLabsNoCredentials == With(Minimal, Section("robottelo", "browser" :> "saucelabs"))

\* sources in which a cast fails
BadUpstream ==
    With(Minimal, Section("robottelo", ("browser" :> "opera") @@ ("upstream" :> "maybe")))

BadPort ==
    With(Section("server", ("hostname" :> "h") @@ ("port" :> "abc")
                           @@ ("ssh_password" :> "x")),
         Bare("clients"))

BadUnixSocket ==
    With(With(With(Minimal, Bare("clients")), Section("docker", "unix_socket" :> "maybe")),
         Bare("ldap"))

BadSyncCount ==
    With(Minimal, With(ValidFeature("performance"), Section("performance", "sync_count" :> "abc")))

DockerExternal == With(Minimal, Section("docker", "external_url" :> "tcp://d"))

DockerDisabled == With(Minimal, Section("docker", "unix_socket" :> "false"))

ServerWithPort ==
    Section("server", ("hostname" :> "h") @@ ("port" :> "8080") @@ ("scheme" :> "http")
                      @@ ("ssh_key" :> "key"))

ServerEmptyHostname == Section("server", ("hostname" :> "") @@ ("ssh_key" :> ""))

Sources ==
    {NoSource, Minimal, AllValid, AllBroken, SauceLabsNoCredentials, BadUpstream, BadPort,
     BadUnixSocket, BadSyncCount, DockerExternal, DockerDisabled, ServerWithPort,
     ServerEmptyHostname, NoServerSection}
    \cup {With(Minimal, Bare(g)) : g \in FeatureNames}
    \cup {With(Minimal, ValidFeature(g)) : g \in FeatureNames}

\* robottelo.properties at the project root: missing, not readable, not
\* parseable, or holding a source
File(status, content) == [status |-> status, content |-> content]

Files ==
    {File(st, NoSource) : st \in {"missing", "unreadable", "malformed"}}
    \cup {File("ok", src) : src \in Sources}

\* the files an edit between two configure() calls leaves behind
EditedFiles ==
    {File("missing", NoSource), File("ok", NoSource), File("ok", Minimal),
     File("ok", AllValid), File("ok", BadPort)}

\* sources that vary the options of one section over every combination of a
\* few raw values, Absent standing for an option the section does not have
Absent == "<absent>"

Choice(option, values) == [option |-> option, values |-> values]

RECURSIVE Combos(_, _)
Combos(choices, i) ==
    IF i = 0 THEN {NoOptions}
    ELSE {IF v = Absent THEN o ELSE o @@ (choices[i].option :> v) :
            o \in Combos(choices, i - 1), v \in choices[i].values}

SectionInputs(name, choices) == {Section(name, o) : o \in Combos(choices, Len(choices))}

Blankable(option, value) == Choice(option, {Absent, "", value})

RobotteloInputs ==
    SectionInputs("robottelo",
        <<Choice("browser", {Absent, "", "selenium", "docker", "saucelabs", "opera"}),
          Choice("webdriver", {Absent, "chrome", "firefox", "ie", "phantomjs", "remote",
                               "lynx"}),
          Blankable("saucelabs_user", "u"),
          Choice("saucelabs_key", {Absent, "k"})>>)

ServerInputs ==
    SectionInputs("server",
        <<Blankable("hostname", "h"), Blankable("ssh_key", "key"),
          Choice("ssh_password", {Absent, "x"}),
          Choice("port", {Absent, "0", "8080", "abc"}),
          Blankable("scheme", "http")>>)

DockerInputs ==
    SectionInputs("docker",
        <<Choice("unix_socket", {Absent, "", "true", "false", "1", "0", "TRUE", "maybe"}),
          Blankable("external_url", "tcp://d")>>)

FakeManifestInputs ==
    SectionInputs("fake_manifest",
        <<Blankable("cert_url", "c"), Blankable("key_url", "k"), Blankable("url", "u")>>)

LDAPInputs ==
    SectionInputs("ldap",
        <<Blankable("basedn", "b"), Blankable("grpbasedn", "g"), Blankable("hostname", "lh"),
          Blankable("password", "pw"), Blankable("username", "un")>>)

VlanNetworkInputs ==
    SectionInputs("vlan_networking",
        <<Blankable("subnet", "sn"), Blankable("netmask", "nm"), Blankable("gateway", "gw"),
          Blankable("bridge", "br")>>)

PerformanceInputs ==
    SectionInputs("performance",
        <<Choice("cdn_address", {Absent, "cdn"}),
          Blankable("virtual_machines", "vm1,vm2"),
          Choice("fresh_install_savepoint", {Absent, "s1"}),
          Choice("enabled_repos_savepoint", {Absent, "s2"}),
          Choice("time_hammer", {Absent, "true"}),
          Choice("csv_buckets_count", {Absent, "3"}),
          Choice("sync_count", {Absent, "3", "abc"}),
          Choice("sync_type", {Absent, "full"}),
          Choice("repos", {Absent, "a, b ,c"})>>)

ClientsInputs ==
    SectionInputs("clients",
        <<Blankable("provisioning_server", "ps"), Blankable("image_dir", "/img")>>)

LibvirtHostInputs ==
    SectionInputs("compute_resources",
        <<Blankable("libvirt_hostname", "lv"), Blankable("libvirt_image_dir", "/lvimg")>>)

DiscoveryISOInputs == SectionInputs("discovery", <<Blankable("discovery_iso", "d.iso")>>)

OscapInputs == SectionInputs("oscap", <<Blankable("content_path", "/oscap")>>)

RHAIInputs ==
    SectionInputs("rhai",
        <<Blankable("insights_client_el6repo", "el6"),
          Blankable("insights_client_el7repo", "el7")>>)

TransitionInputs == SectionInputs("transition", <<Blankable("exported_data", "/data")>>)

InputSources ==
    ServerInputs
    \cup {With(Minimal, src) :
            src \in RobotteloInputs \cup DockerInputs \cup FakeManifestInputs
                    \cup LDAPInputs \cup VlanNetworkInputs \cup PerformanceInputs
                    \cup ClientsInputs \cup LibvirtHostInputs \cup DiscoveryISOInputs
                    \cup OscapInputs \cup RHAIInputs \cup TransitionInputs}

InputFiles == {File("ok", src) : src \in InputSources}

\* logging.conf at the project root
LoggingConfs == {"absent", "valid", "malformed"}

(* ------------------------------------------------------------------ *)
(* State                                                                *)
(* ------------------------------------------------------------------ *)
VARIABLES
    file,               \* the settings file on disk
    logging_conf,       \* the logging.conf file on disk
    edited,             \* the files were edited since the last configure() call
    configured,         \* Settings._configured
    validation_errors,  \* Settings._validation_errors
    reader,             \* Settings.reader
    options,            \* the global options of Settings
    server,             \* Settings.server
    features,           \* the eleven optional groups of Settings
    logging_state,      \* process-wide state of the logging module
    entity_state,       \* process-wide state of nailgun (entity_mixins, entities)
    threads,            \* the threads that call configure()
    pc,                 \* where each thread is inside configure()
    outcome,            \* how each thread's last configure() call ended
    trail,              \* the steps each thread's current or last call completed
    calls,              \* configure() calls made so far
    reads,              \* read() calls made on each group so far
    validations,        \* validate() calls made on each group so far
    file_reads,         \* INIReader constructions that read the file
    effects,            \* how often each process-wide side effect was performed
    got,                \* the last query a collaborator made, with what it returned
    entry               \* what each thread's current or last call found on entering

instance == <<configured, validation_errors, reader, options, server, features>>
process == <<logging_state, entity_state>>
environment == <<file, logging_conf, edited>>
history == <<calls, reads, validations, file_reads, effects>>
vars == <<environment, instance, process, threads, pc, outcome, trail, history, got, entry>>

AllThreads == {"main", "other"}

Groups == {"robottelo", "server"} \cup FeatureNames

EffectNames ==
    {"captureWarnings", "setLevel", "fileConfig", "fileConfigFailed", "basicConfig",
     "third_party",
     "CREATE_MISSING", "DEFAULT_SERVER_CONFIG", "GPGKey", "DockerComputeResource"}

\* a query: the method called, its arguments and the value it returned
Query(op, section, option, default, cast, value) ==
    [op |-> op, section |-> section, option |-> option, default |-> default,
     cast |-> cast, value |-> value]

NoQuery == Query("none", "", "", PyNone, "none", PyNone)

\* the collected errors, the flag and the process-wide state a call finds
Snapshot(errors, flag, logging, entities) ==
    [errors |-> errors, configured |-> flag, logging_state |-> logging,
     entity_state |-> entities]

NoSnapshot == Snapshot(<<>>, FALSE, <<>>, <<>>)

NoReader == [open |-> FALSE, secs |-> {}, opts |-> NoOptions]

NoServerConfig == [set |-> FALSE, url |-> "", auth |-> <<PyNone, PyNone>>, verify |-> TRUE]

\* faulty variant: certificate verification is left enabled
ServerConfig_verifying(url, auth, verify) ==
    [set |-> TRUE, url |-> url, auth |-> auth, verify |-> TRUE]

ServerConfig(url, auth, verify) == [set |-> TRUE, url |-> url, auth |-> auth, verify |-> verify]

NoOutcome == [kind |-> "none", exc |-> "", at |-> "", msg |-> <<>>]

\* faulty variant: logging is configured before the collected errors are checked
Steps_logging_first ==
    <<"isfile", "reader", "robottelo", "server">> \o Features
    \o <<"logging", "check", "third_party", "entities", "mark">>

\* the statements of configure(), in program order
Steps ==
    <<"isfile", "reader", "robottelo", "server">> \o Features
    \o <<"check", "logging", "third_party", "entities", "mark">>

StepIndex(label) == CHOOSE i \in DOMAIN Steps : Steps[i] = label

After(label) == Steps[StepIndex(label) + 1]

Settings_init ==
    /\ configured = FALSE
    /\ validation_errors = <<>>
    /\ reader = NoReader
    /\ options = Settings_options_init
    /\ server = ServerSettings_init
    /\ features = [g \in FeatureNames |-> Feature_init(g)]

ProcessInit ==
    /\ logging_state = [capture_warnings |-> FALSE, level |-> PyNone,
                        configured_by |-> "none", third_party |-> FALSE]
    /\ entity_state = [CREATE_MISSING |-> FALSE, DEFAULT_SERVER_CONFIG |-> NoServerConfig,
                       gpgkey_patches |-> 0, dockercr_patches |-> 0,
                       dockercr_url |-> PyNone]

InitFrom(ths, files, confs) ==
    /\ file \in files
    /\ logging_conf \in confs
    /\ edited = FALSE
    /\ Settings_init
    /\ ProcessInit
    /\ threads = ths
    /\ pc = [t \in AllThreads |-> "idle"]
    /\ outcome = [t \in AllThreads |-> NoOutcome]
    /\ trail = [t \in AllThreads |-> <<>>]
    /\ calls = 0
    /\ reads = [g \in Groups |-> 0]
    /\ validations = [g \in Groups |-> 0]
    /\ file_reads = 0
    /\ effects = [e \in EffectNames |-> 0]
    /\ got = NoQuery
    /\ entry = [t \in AllThreads |-> NoSnapshot]

InitWith(ths) == InitFrom(ths, Files, LoggingConfs)

Init == InitWith({"main"})

(* ------------------------------------------------------------------ *)
(* Settings.configure(), statement by statement                         *)
(* ------------------------------------------------------------------ *)
Goto(t, label) == pc' = [pc EXCEPT ![t] = label]

Completed(t, label) == trail' = [trail EXCEPT ![t] = Append(@, label)]

\* the call ends by raising exc out of the statement `at`
Raise(t, exc, at, msg) ==
    /\ Goto(t, "idle")
    /\ outcome' = [outcome EXCEPT ![t] = [kind |-> "raised", exc |-> exc, at |-> at,
                                          msg |-> msg]]

\* the call returns normally out of the statement `at`
Return(t, at) ==
    /\ Goto(t, "idle")
    /\ outcome' = [outcome EXCEPT ![t] = [kind |-> "returned", exc |-> "", at |-> at,
                                          msg |-> <<>>]]

Performed(names) == effects' = [e \in EffectNames |-> effects[e] + (IF e \in names THEN 1 ELSE 0)]

\* faulty variant: the guard of configure() never sees the flag
Settings_configured_ignored(flag) == FALSE

\* the property Settings.configured
Settings_configured(flag) == flag

\* faulty variant: a call enters configure() only while no other call is inside
ConfigureEnter_exclusive(t) ==
    /\ pc[t] = "idle"
    /\ \A u \in threads : pc[u] = "idle"
    /\ calls < MaxCalls
    /\ calls' = calls + 1
    /\ edited' = FALSE
    /\ entry' = [entry EXCEPT ![t] = Snapshot(validation_errors, configured,
                                               logging_state, entity_state)]
    /\ IF configured
       THEN /\ Return(t, "guard")
            /\ UNCHANGED trail
       ELSE /\ Goto(t, "isfile")
            /\ outcome' = [outcome EXCEPT ![t] = NoOutcome]
            /\ trail' = [trail EXCEPT ![t] = <<>>]
    /\ UNCHANGED <<got, file, logging_conf, instance, process, threads, reads, validations,
                   file_reads, effects>>

\* if self.configured: return
ConfigureEnter(t) ==
    /\ pc[t] = "idle"
    /\ calls < MaxCalls
    /\ calls' = calls + 1
    /\ edited' = FALSE
    /\ entry' = [entry EXCEPT ![t] = Snapshot(validation_errors, configured,
                                               logging_state, entity_state)]
    /\ IF Settings_configured(configured)
       THEN /\ Return(t, "guard")
            /\ UNCHANGED trail
       ELSE /\ Goto(t, "isfile")
            /\ outcome' = [outcome EXCEPT ![t] = NoOutcome]
            /\ trail' = [trail EXCEPT ![t] = <<>>]
    /\ UNCHANGED <<got, file, logging_conf, instance, process, threads, reads, validations,
                   file_reads, effects>>

\* if not os.path.isfile(settings_path): raise ImproperlyConfigured(...)
CheckSettingsFile(t) ==
    /\ pc[t] = "isfile"
    /\ IF file.status = "missing"
       THEN /\ Raise(t, "ImproperlyConfigured", "isfile",
                     <<"Not able to find settings file at robottelo.properties">>)
            /\ UNCHANGED trail
       ELSE /\ Goto(t, After("isfile"))
            /\ Completed(t, "isfile")
            /\ UNCHANGED outcome
    /\ UNCHANGED <<got, entry, environment, instance, process, threads, history>>

\* self.reader = INIReader(settings_path)
INIReader_init(t) ==
    /\ pc[t] = "reader"
    /\ IF file.status = "unreadable"
       THEN /\ Raise(t, "IOError", "reader", <<>>)
            /\ UNCHANGED <<reader, trail, file_reads>>
       ELSE IF file.status = "malformed"
       THEN /\ Raise(t, "ParsingError", "reader", <<>>)
            /\ file_reads' = file_reads + 1
            /\ UNCHANGED <<reader, trail>>
       ELSE /\ reader' = [open |-> TRUE, secs |-> file.content.secs,
                          opts |-> file.content.opts]
            /\ file_reads' = file_reads + 1
            /\ Goto(t, After("reader"))
            /\ Completed(t, "reader")
            /\ UNCHANGED outcome
    /\ UNCHANGED <<got, entry, environment, configured, validation_errors, options, server,
                   features, process, threads, calls, reads, validations, effects>>

\* faulty variant: the new errors are put in front of the collected ones
Extend_in_front(errors, new) == new \o errors

\* faulty variant: the list is replaced by the errors of the last validation
Extend_replacing(errors, new) == new

\* self._validation_errors.extend(errors)
Extend(errors, new) == errors \o new

\* self._read_robottelo_settings()
\* self._validation_errors.extend(self._validate_robottelo_settings())
ReadRobottelo(t) ==
    /\ pc[t] = "robottelo"
    /\ LET r == ReadInto(options, Settings_read_robottelo_settings, reader, 1)
       IN  /\ options' = r.obj
           /\ reads' = [reads EXCEPT !["robottelo"] = @ + 1]
           /\ IF r.exc # ""
              THEN /\ Raise(t, r.exc, "robottelo", <<>>)
                   /\ UNCHANGED <<validation_errors, validations, trail>>
              ELSE /\ validation_errors' =
                          Extend(validation_errors, Settings_validate_robottelo_settings(r.obj))
                   /\ validations' = [validations EXCEPT !["robottelo"] = @ + 1]
                   /\ Goto(t, After("robottelo"))
                   /\ Completed(t, "robottelo")
                   /\ UNCHANGED outcome
    /\ UNCHANGED <<got, entry, environment, configured, reader, server, features, process, threads,
                   calls, file_reads, effects>>

\* self.server.read(self.reader)
\* self._validation_errors.extend(self.server.validate())
ReadServer(t) ==
    /\ pc[t] = "server"
    /\ LET r == ReadInto(server, ServerSettings_read, reader, 1)
       IN  /\ server' = r.obj
           /\ reads' = [reads EXCEPT !["server"] = @ + 1]
           /\ IF r.exc # ""
              THEN /\ Raise(t, r.exc, "server", <<>>)
                   /\ UNCHANGED <<validation_errors, validations, trail>>
              ELSE /\ validation_errors' =
                          Extend(validation_errors, ServerSettings_validate(r.obj))
                   /\ validations' = [validations EXCEPT !["server"] = @ + 1]
                   /\ Goto(t, After("server"))
                   /\ Completed(t, "server")
                   /\ UNCHANGED outcome
    /\ UNCHANGED <<got, entry, environment, configured, reader, options, features, process, threads,
                   calls, file_reads, effects>>

\* if self.reader.has_section(g):
\*     self.<g>.read(self.reader)
\*     self._validation_errors.extend(self.<g>.validate())
ReadFeature(t) ==
    /\ pc[t] \in FeatureNames
    /\ LET g == pc[t]
           r == ReadInto(features[g], Feature_read(g), reader, 1)
       IN  IF ~INIReader_has_section(reader, g)
           THEN /\ Goto(t, After(g))
                /\ UNCHANGED <<features, validation_errors, reads, validations, trail,
                               outcome>>
           ELSE /\ features' = [features EXCEPT ![g] = r.obj]
                /\ reads' = [reads EXCEPT ![g] = @ + 1]
                /\ IF r.exc # ""
                   THEN /\ Raise(t, r.exc, g, <<>>)
                        /\ UNCHANGED <<validation_errors, validations, trail>>
                   ELSE /\ validation_errors' =
                               Extend(validation_errors, Feature_validate(g, r.obj))
                        /\ validations' = [validations EXCEPT ![g] = @ + 1]
                        /\ Goto(t, After(g))
                        /\ Completed(t, g)
                        /\ UNCHANGED outcome
    /\ UNCHANGED <<got, entry, environment, configured, reader, options, server, process, threads,
                   calls, file_reads, effects>>

\* the message of the aggregated validation failure, line by line
ValidationMessage(errors) ==
    <<"Failed to validate the configuration, check the message(s):">> \o errors

\* faulty variant: the flag is set before the error check raises
CheckValidationErrors_marking(t) ==
    /\ pc[t] = "check"
    /\ IF validation_errors # <<>>
       THEN /\ Raise(t, "ImproperlyConfigured", "check", ValidationMessage(validation_errors))
            /\ configured' = TRUE
            /\ UNCHANGED trail
       ELSE /\ Goto(t, After("check"))
            /\ Completed(t, "check")
            /\ UNCHANGED <<outcome, configured>>
    /\ UNCHANGED <<got, entry, environment, validation_errors, reader, options, server, features,
                   process, threads, history>>

\* faulty variant: the collected errors are dropped when the check raises
CheckValidationErrors_clearing(t) ==
    /\ pc[t] = "check"
    /\ IF validation_errors # <<>>
       THEN /\ Raise(t, "ImproperlyConfigured", "check", ValidationMessage(validation_errors))
            /\ validation_errors' = <<>>
            /\ UNCHANGED trail
       ELSE /\ Goto(t, After("check"))
            /\ Completed(t, "check")
            /\ UNCHANGED <<outcome, validation_errors>>
    /\ UNCHANGED <<got, entry, environment, configured, reader, options, server, features,
                   process, threads, history>>

\* if self._validation_errors: raise ImproperlyConfigured(...)
CheckValidationErrors(t) ==
    /\ pc[t] = "check"
    /\ IF validation_errors # <<>>
       THEN /\ Raise(t, "ImproperlyConfigured", "check", ValidationMessage(validation_errors))
            /\ UNCHANGED trail
       ELSE /\ Goto(t, After("check"))
            /\ Completed(t, "check")
            /\ UNCHANGED outcome
    /\ UNCHANGED <<got, entry, environment, instance, process, threads, history>>

\* faulty variant: the flag is set on entering step 7 instead of after it
Settings_configure_logging_marking(t) ==
    /\ pc[t] = "logging"
    /\ configured' = TRUE
    /\ IF logging_conf = "malformed"
       THEN /\ logging_state' = [logging_state EXCEPT !.capture_warnings = TRUE,
                                                      !.level = options.verbosity]
            /\ Performed({"captureWarnings", "setLevel", "fileConfigFailed"})
            /\ Raise(t, "LoggingConfigError", "logging", <<>>)
            /\ UNCHANGED trail
       ELSE /\ logging_state' =
                   [logging_state EXCEPT !.capture_warnings = TRUE,
                                         !.level = options.verbosity,
                                         !.configured_by =
                                             IF logging_conf = "valid" THEN "fileConfig"
                                             ELSE "basicConfig"]
            /\ Performed({"captureWarnings", "setLevel",
                          IF logging_conf = "valid" THEN "fileConfig" ELSE "basicConfig"})
            /\ Goto(t, After("logging"))
            /\ Completed(t, "logging")
            /\ UNCHANGED outcome
    /\ UNCHANGED <<got, entry, environment, validation_errors, reader, options, server, features,
                   entity_state, threads, calls, reads, validations, file_reads>>

\* self._configure_logging()
Settings_configure_logging(t) ==
    /\ pc[t] = "logging"
    /\ IF logging_conf = "malformed"
       THEN /\ logging_state' = [logging_state EXCEPT !.capture_warnings = TRUE,
                                                      !.level = options.verbosity]
            /\ Performed({"captureWarnings", "setLevel", "fileConfigFailed"})
            /\ Raise(t, "LoggingConfigError", "logging", <<>>)
            /\ UNCHANGED trail
       ELSE /\ logging_state' =
                   [logging_state EXCEPT !.capture_warnings = TRUE,
                                         !.level = options.verbosity,
                                         !.configured_by =
                                             IF logging_conf = "valid" THEN "fileConfig"
                                             ELSE "basicConfig"]
            /\ Performed({"captureWarnings", "setLevel",
                          IF logging_conf = "valid" THEN "fileConfig" ELSE "basicConfig"})
            /\ Goto(t, After("logging"))
            /\ Completed(t, "logging")
            /\ UNCHANGED outcome
    /\ UNCHANGED <<got, entry, environment, instance, entity_state, threads, calls, reads,
                   validations, file_reads>>

\* self._configure_third_party_logging()
Settings_configure_third_party_logging(t) ==
    /\ pc[t] = "third_party"
    /\ logging_state' = [logging_state EXCEPT !.third_party = TRUE]
    /\ Performed({"third_party"})
    /\ Goto(t, After("third_party"))
    /\ Completed(t, "third_party")
    /\ UNCHANGED <<got, entry, environment, instance, entity_state, threads, outcome, calls, reads,
                   validations, file_reads>>

\* faulty variant: the unix socket is not tried
DockerUrl_external_only(docker) == docker.external_url

\* the default url of DockerComputeResource that _configure_entities computes
DockerUrl(docker) ==
    IF DockerSettings_get_unix_socket_url(docker) # PyNone
    THEN DockerSettings_get_unix_socket_url(docker)
    ELSE docker.external_url

\* self._configure_entities()
Settings_configure_entities(t) ==
    /\ pc[t] = "entities"
    /\ LET docker_url == DockerUrl(features["docker"])
       IN  /\ entity_state' =
                 [CREATE_MISSING |-> TRUE,
                  DEFAULT_SERVER_CONFIG |->
                      ServerConfig(ServerSettings_get_url(server),
                                   ServerSettings_get_credentials(server), FALSE),
                  gpgkey_patches |-> entity_state.gpgkey_patches + 1,
                  dockercr_patches |->
                      entity_state.dockercr_patches + (IF docker_url # PyNone THEN 1 ELSE 0),
                  dockercr_url |->
                      IF docker_url # PyNone THEN docker_url ELSE entity_state.dockercr_url]
           /\ Performed({"CREATE_MISSING", "DEFAULT_SERVER_CONFIG", "GPGKey"}
                        \cup (IF docker_url # PyNone THEN {"DockerComputeResource"} ELSE {}))
    /\ Goto(t, After("entities"))
    /\ Completed(t, "entities")
    /\ UNCHANGED <<got, entry, environment, instance, logging_state, threads, outcome, calls, reads,
                   validations, file_reads>>

\* self._configured = True
MarkConfigured(t) ==
    /\ pc[t] = "mark"
    /\ configured' = TRUE
    /\ Completed(t, "mark")
    /\ Return(t, "mark")
    /\ UNCHANGED <<got, entry, environment, validation_errors, reader, options, server, features,
                   process, threads, history>>

\* between two configure() calls somebody edits the settings file or logging.conf
EditFiles ==
    /\ \A t \in threads : pc[t] = "idle"
    /\ 0 < calls /\ calls < MaxCalls
    /\ ~edited
    /\ \E f \in EditedFiles \cup {file}, lc \in LoggingConfs :
          /\ <<f, lc>> # <<file, logging_conf>>
          /\ file' = f
          /\ logging_conf' = lc
    /\ edited' = TRUE
    /\ UNCHANGED <<got, entry, instance, process, threads, pc, outcome, trail, history>>

Next ==
    \/ \E t \in threads : ConfigureEnter(t)
    \/ \E t \in threads : CheckSettingsFile(t)
    \/ \E t \in threads : INIReader_init(t)
    \/ \E t \in threads : ReadRobottelo(t)
    \/ \E t \in threads : ReadServer(t)
    \/ \E t \in threads : ReadFeature(t)
    \/ \E t \in threads : CheckValidationErrors(t)
    \/ \E t \in threads : Settings_configure_logging(t)
    \/ \E t \in threads : Settings_configure_third_party_logging(t)
    \/ \E t \in threads : Settings_configure_entities(t)
    \/ \E t \in threads : MarkConfigured(t)
    \/ EditFiles

Spec == Init /\ [][Next]_vars

\* configure() called on one file that nothing edits between the calls
NextCalls ==
    \/ \E t \in threads : ConfigureEnter(t)
    \/ \E t \in threads : CheckSettingsFile(t)
    \/ \E t \in threads : INIReader_init(t)
    \/ \E t \in threads : ReadRobottelo(t)
    \/ \E t \in threads : ReadServer(t)
    \/ \E t \in threads : ReadFeature(t)
    \/ \E t \in threads : CheckValidationErrors(t)
    \/ \E t \in threads : Settings_configure_logging(t)
    \/ \E t \in threads : Settings_configure_third_party_logging(t)
    \/ \E t \in threads : Settings_configure_entities(t)
    \/ \E t \in threads : MarkConfigured(t)

\* one thread, a source drawn from the per-section input combinations
InitInputs == InitFrom({"main"}, InputFiles, {"absent"})

SpecInputs == InitInputs /\ [][NextCalls]_vars

\* a source whose options exercise every cast of INIReader.get
ProbeSource ==
    With(Minimal,
         With(Section("docker", ("unix_socket" :> "TRUE") @@ ("external_url" :> "")),
              Section("performance",
                      ("cdn_address" :> "cdn") @@ ("virtual_machines" :> "a, b ,c")
                      @@ ("fresh_install_savepoint" :> "s1")
                      @@ ("enabled_repos_savepoint" :> "s2")
                      @@ ("sync_count" :> "3") @@ ("sync_type" :> "k:v"))))

QueryFiles ==
    {File("ok", src) :
        src \in {Minimal, ProbeSource, ServerWithPort, ServerEmptyHostname, DockerDisabled,
                  DockerExternal}}

\* the reader.get calls a collaborator makes: an option the source has, an
\* option it lacks in a section it has, an option of a section it lacks
QueriedOptions ==
    {<<"server", "hostname">>, <<"server", "port">>, <<"docker", "unix_socket">>,
     <<"performance", "virtual_machines">>, <<"performance", "sync_type">>}

QueriedDefaults == {PyNone, PyStr("true")}

Casts == {"none", "bool", "dict", "list", "tuple", "int", "logging_level", "capabilities"}

\* everything a query leaves alone
Settled == <<environment, instance, process, threads, pc, outcome, trail, history, entry>>

\* settings.reader.get(section, option, default, cast), once the reader exists
Call_INIReader_get ==
    /\ reader.open
    /\ \E o \in QueriedOptions, d \in QueriedDefaults, c \in Casts :
          got' = Query("get", o[1], o[2], d, c, INIReader_get(reader, o[1], o[2], d, c))
    /\ UNCHANGED Settled

\* settings.server.get_pub_url()
Call_get_pub_url ==
    /\ got' = Query("get_pub_url", "", "", PyNone, "none",
                    PyStr(ServerSettings_get_pub_url(server)))
    /\ UNCHANGED Settled

\* settings.server.get_cert_rpm_url()
Call_get_cert_rpm_url ==
    /\ got' = Query("get_cert_rpm_url", "", "", PyNone, "none",
                    PyStr(ServerSettings_get_cert_rpm_url(server)))
    /\ UNCHANGED Settled

\* settings.docker.get_unix_socket_url()
Call_get_unix_socket_url ==
    /\ got' = Query("get_unix_socket_url", "", "", PyNone, "none",
                    DockerSettings_get_unix_socket_url(features["docker"]))
    /\ UNCHANGED Settled

\* configure() calls on one file, with queries made at any moment
NextQueries ==
    \/ \E t \in threads : ConfigureEnter(t)
    \/ \E t \in threads : CheckSettingsFile(t)
    \/ \E t \in threads : INIReader_init(t)
    \/ \E t \in threads : ReadRobottelo(t)
    \/ \E t \in threads : ReadServer(t)
    \/ \E t \in threads : ReadFeature(t)
    \/ \E t \in threads : CheckValidationErrors(t)
    \/ \E t \in threads : Settings_configure_logging(t)
    \/ \E t \in threads : Settings_configure_third_party_logging(t)
    \/ \E t \in threads : Settings_configure_entities(t)
    \/ \E t \in threads : MarkConfigured(t)
    \/ Call_INIReader_get
    \/ Call_get_pub_url
    \/ Call_get_cert_rpm_url
    \/ Call_get_unix_socket_url

InitQueries == InitFrom({"main"}, QueryFiles, {"absent"})

SpecQueries == InitQueries /\ [][NextQueries]_vars

\* two threads calling configure() on the same instance, statements interleaved
RaceFiles ==
    {File("missing", NoSource)}
    \cup {File("ok", src) : src \in {DockerExternal, NoServerSection, BadPort}}

InitRace == InitFrom(AllThreads, RaceFiles, {"absent", "malformed"})

SpecRace == InitRace /\ [][NextCalls]_vars

(* ------------------------------------------------------------------ *)
(* Properties                                                           *)
(* ------------------------------------------------------------------ *)
Range(seq) == {seq[i] : i \in DOMAIN seq}

IsStep7(label) == label \in {"logging", "third_party", "entities", "mark"}

\* the steps a call completes when no statement raises, given the source read
KeepStep(rd, label) == label \notin FeatureNames \/ label \in rd.secs

RECURSIVE StepsFor(_, _)
StepsFor(rd, i) ==
    IF i = 0 THEN <<>>
    ELSE StepsFor(rd, i - 1) \o (IF KeepStep(rd, Steps[i]) THEN <<Steps[i]>> ELSE <<>>)

ExpectedTrail(rd) == StepsFor(rd, Len(Steps))

\* thread t has finished a call, which got past the construction of the reader
Finished(t) == pc[t] = "idle" /\ outcome[t].kind # "none"

PastReader(t) == "reader" \in Range(trail[t])

\* no cast failed in t's finished call: it ended at or after the error check
NoCastFailed(t) == outcome[t].at \in {"check", "logging", "mark"}

ProcessUntouched ==
    /\ logging_state = [capture_warnings |-> FALSE, level |-> PyNone,
                        configured_by |-> "none", third_party |-> FALSE]
    /\ entity_state = [CREATE_MISSING |-> FALSE, DEFAULT_SERVER_CONFIG |-> NoServerConfig,
                       gpgkey_patches |-> 0, dockercr_patches |-> 0,
                       dockercr_url |-> PyNone]
    /\ \A e \in EffectNames : effects[e] = 0

\* ---- C1
\* C1: `configured` starts false; it changes from false to true only in the
\* last statement of a configure() call that completed every step and returns
\* normally; once true it never becomes false again (so it changes at most once).
C1_ConfiguredLatch ==
    /\ configured = FALSE
    /\ [][ /\ (configured => configured')
           /\ (~configured /\ configured' =>
                 \E t \in threads :
                    /\ pc[t] = "mark" /\ pc'[t] = "idle"
                    /\ outcome'[t].kind = "returned"
                    /\ trail'[t] = ExpectedTrail(reader)) ]_vars

\* a call made after a successful one found the flag still true
C1_Witness ==
    /\ configured
    /\ calls = 2
    /\ outcome["main"].kind = "returned" /\ outcome["main"].at = "guard"

\* ---- C2
\* C2: a configure() call made while `configured` is true returns without
\* raising and changes nothing: the file is not read again, no group is read
\* or validated again, and the error list, the options, the groups and the
\* logging and entity-library globals stay as they were.
C2_SecondCallIsNoOp ==
    [][ (configured /\ calls' # calls) =>
            /\ \A t \in threads :
                  /\ pc'[t] = "idle"
                  /\ outcome'[t] # outcome[t] =>
                        outcome'[t].kind = "returned" /\ outcome'[t].at = "guard"
            /\ \E t \in threads : outcome'[t].at = "guard"
            /\ UNCHANGED <<instance, process, trail, reads, validations, file_reads,
                           effects>> ]_vars

\* a call was made on a configured instance whose settings file had been
\* replaced by one that does not validate
C2_Witness ==
    /\ configured
    /\ outcome["main"].kind = "returned" /\ outcome["main"].at = "guard"
    /\ file = File("ok", NoSource)
    /\ file_reads = 1

\* ---- C3
\* C3: when the error check is reached with a non-empty error list, the call
\* raises ImproperlyConfigured there, `configured` stays false and the call has
\* performed none of the step-7 side effects (logging, third-party logger
\* levels, entity-library defaults, constructor patches); after a first call
\* that ended so, the process-wide state is still untouched.
C3_RaisedAtCheck(t) == Finished(t) /\ outcome[t].kind = "raised" /\ outcome[t].at = "check"

C3_ValidationFailureIsAtomic ==
    /\ [](\A t \in threads :
             C3_RaisedAtCheck(t) =>
                /\ outcome[t].exc = "ImproperlyConfigured"
                /\ ~configured
                /\ \A label \in Range(trail[t]) : ~IsStep7(label)
                /\ calls = 1 => ProcessUntouched)
    /\ [][ \A t \in threads :
             (pc[t] = "check" /\ pc'[t] # "check" /\ validation_errors # <<>>) =>
                /\ C3_RaisedAtCheck(t)'
                /\ outcome'[t].exc = "ImproperlyConfigured"
                /\ ~configured'
                /\ UNCHANGED <<process, effects>> ]_vars

\* a first call collected several errors and raised at the check
C3_Witness ==
    /\ C3_RaisedAtCheck("main")
    /\ Len(validation_errors) > 1
    /\ calls = 1
    /\ ~configured
    /\ ProcessUntouched

\* ---- C4
\* C4: whenever a configure() call has terminated abnormally (missing file,
\* failing Reader construction, failing cast in the globals, the server or an
\* optional group, aggregated validation errors, failing logging
\* configuration), `configured` is false; `configured` is true only when a
\* call completed every step before the assignment and collected no error.
C4_FailurePoints ==
    {"isfile", "reader", "robottelo", "server", "check", "logging"} \cup FeatureNames

C4_ConfiguredOnlyAtTheEnd ==
    \A t \in threads :
       /\ (Finished(t) /\ outcome[t].kind = "raised") =>
             ~configured /\ outcome[t].at \in C4_FailurePoints
       /\ configured =>
             /\ trail[t] = ExpectedTrail(reader)
             /\ validation_errors = <<>>
             /\ outcome[t].kind = "returned"

\* the call failed in the last step that can fail, inside the logging setup
C4_Witness ==
    /\ Finished("main")
    /\ outcome["main"].kind = "raised" /\ outcome["main"].at = "logging"
    /\ logging_state.capture_warnings
    /\ ~configured

\* ---- C5
\* C5 as stated: every process-wide side effect of step 7 is performed at most
\* once over any sequence of configure() calls.
C5_Original == \A e \in EffectNames : effects[e] <= 1

\* C5 amended: the third-party logger levels and the entity-library side
\* effects (CREATE_MISSING, DEFAULT_SERVER_CONFIG, patching the GPGKey and
\* DockerComputeResource constructors) are performed at most once, and the
\* logging setup runs to completion at most once; its first statements
\* (captureWarnings, the nailgun and robottelo logger levels) are performed
\* once more for every earlier call that failed inside fileConfig.
C5_Step7AtMostOnceCompleted ==
    /\ \A e \in EffectNames \ {"captureWarnings", "setLevel", "fileConfigFailed"} :
          effects[e] <= 1
    /\ effects["fileConfig"] + effects["basicConfig"] <= 1
    /\ effects["captureWarnings"] = effects["setLevel"]
    /\ effects["captureWarnings"] =
          effects["fileConfig"] + effects["basicConfig"] + effects["fileConfigFailed"]
    /\ entity_state.gpgkey_patches = effects["GPGKey"]
    /\ entity_state.dockercr_patches = effects["DockerComputeResource"]

\* a call failed inside the logging setup, logging.conf was repaired, and the
\* next call completed step 7
C5_Witness ==
    /\ configured
    /\ effects["captureWarnings"] = 2
    /\ effects["fileConfigFailed"] = 1
    /\ effects["GPGKey"] = 1
    /\ effects["CREATE_MISSING"] = 1

\* ---- C6
\* C6 as stated: over any sequence of configure() calls every group is read at
\* most once and validated at most once.
C6_Original == \A g \in Groups : reads[g] <= 1 /\ validations[g] <= 1

\* C6 amended: within one configure() call every group is read at most once
\* and validated at most once, only after it was read, and no group is read
\* or validated once `configured` is true; a call that follows a failed call
\* reads and validates the groups again.
C6_AtMostOncePerCall ==
    /\ [](\A g \in Groups : validations[g] <= reads[g] /\ reads[g] <= calls)
    /\ [][ \A g \in Groups :
             (reads'[g] # reads[g] \/ validations'[g] # validations[g]) =>
                /\ ~configured
                /\ reads'[g] = reads[g] + 1
                /\ validations'[g] \in {validations[g], validations[g] + 1}
                /\ \E t \in threads : pc[t] = g /\ g \notin Range(trail[t]) ]_vars

\* the second call read and validated the server group again
C6_Witness ==
    /\ calls = 2
    /\ reads["server"] = 2 /\ validations["server"] = 2
    /\ ~configured

C8_Original ==
    \A t \in threads :
       (Finished(t) /\ PastReader(t)) =>
          \A g \in FeatureNames \ reader.secs : features[g] = Feature_init(g)

\* C8 amended: configure() leaves every field of an optional group whose
\* section is absent from the source unchanged, whether it succeeds or fails;
\* the fields have their __init__-time value None as long as no earlier call
\* on the instance read the group from a source that had the section.
C8_AbsentGroupsUntouched ==
    /\ [](\A g \in FeatureNames : reads[g] = 0 => features[g] = Feature_init(g))
    /\ [][ \A g \in FeatureNames :
             features'[g] # features[g] =>
                g \in reader.secs /\ \E t \in threads : pc[t] = g ]_vars

\* the first call read [clients] and failed; the file was replaced by one
\* without [clients]; the second call left the clients fields as the first set them
C8_Witness ==
    /\ Finished("main") /\ PastReader("main")
    /\ calls = 2
    /\ "clients" \notin reader.secs
    /\ features["clients"].image_dir = PyStr("/opt/robottelo/images")
    /\ features["docker"] = DockerSettings_init

\* ---- C9
\* the errors of the groups of a source, group by group, in the order globals,
\* server, optional groups
RobotteloErrors(rd) ==
    Settings_validate_robottelo_settings(
        ReadInto(Settings_options_init, Settings_read_robottelo_settings, rd, 1).obj)

ServerErrors(rd) ==
    ServerSettings_validate(ReadInto(ServerSettings_init, ServerSettings_read, rd, 1).obj)

FeatureErrors(rd, g) ==
    IF g \in rd.secs
    THEN Feature_validate(g, ReadInto(Feature_init(g), Feature_read(g), rd, 1).obj)
    ELSE <<>>

RECURSIVE FeaturesErrors(_, _)
FeaturesErrors(rd, i) ==
    IF i = 0 THEN <<>> ELSE FeaturesErrors(rd, i - 1) \o FeatureErrors(rd, Features[i])

ExpectedErrors(rd) ==
    RobotteloErrors(rd) \o ServerErrors(rd) \o FeaturesErrors(rd, Len(Features))

C9_ListAndMessage(t) ==
    /\ validation_errors = ExpectedErrors(reader)
    /\ validation_errors # <<>> =>
          /\ outcome[t].kind = "raised"
          /\ outcome[t].exc = "ImproperlyConfigured"
          /\ Len(outcome[t].msg) = Len(validation_errors) + 1
          /\ \A i \in DOMAIN validation_errors :
                outcome[t].msg[i + 1] = ExpectedErrors(reader)[i]

C10_Original ==
    \A t \in threads :
       (Finished(t) /\ outcome[t].kind = "raised"
          /\ outcome[t].at \in {"isfile", "reader", "check"}) =>
          outcome[t].exc = "ImproperlyConfigured"

(* ------------------------------------------------------------------ *)
\* ---- C11
\* the reader.get assignments of a group's read()
GroupRead(g) ==
    CASE g = "robottelo" -> Settings_read_robottelo_settings
      [] g = "server" -> ServerSettings_read
      [] OTHER -> Feature_read(g)

\* the assignments of group g whose option is in the source with a raw value
\* its cast rejects
FailingCasts(rd, g) ==
    {i \in DOMAIN GroupRead(g) :
        LET a == GroupRead(g)[i]
        IN  /\ <<a.section, a.option>> \in DOMAIN rd.opts
            /\ INIReader_cast(a.cast, rd.opts[<<a.section, a.option>>]).t = "raise"}

\* the error of the first failing cast of group g
FirstCastError(rd, g) ==
    LET i == CHOOSE i \in FailingCasts(rd, g) : \A j \in FailingCasts(rd, g) : i <= j
        a == GroupRead(g)[i]
    IN  INIReader_cast(a.cast, rd.opts[<<a.section, a.option>>]).s

\* group g is read by a call that reaches it
IsRead(rd, g) == g \notin FeatureNames \/ g \in rd.secs

\* the step of thread t that reads group g, one of whose casts fails
CastFailsIn(t, g) ==
    /\ pc[t] = g
    /\ pc'[t] # g
    /\ IsRead(reader, g)
    /\ FailingCasts(reader, g) # {}

Position(seq, x) == CHOOSE i \in DOMAIN seq : seq[i] = x

\* the steps of the call in the order read/validate, error check, logging,
\* third-party logging, entity library, assignment of the flag
InConfigureOrder(tr) ==
    /\ {"check", "logging", "third_party", "entities", "mark"} \subseteq Range(tr)
    /\ \A g \in Groups \cap Range(tr) : Position(tr, g) < Position(tr, "check")
    /\ {"robottelo", "server"} \subseteq Range(tr)
    /\ Position(tr, "logging") = Position(tr, "check") + 1
    /\ Position(tr, "third_party") = Position(tr, "logging") + 1
    /\ Position(tr, "entities") = Position(tr, "third_party") + 1
    /\ Position(tr, "mark") = Position(tr, "entities") + 1
    /\ Position(tr, "mark") = Len(tr)

\* C12: whenever `configured` is true, validation produced no error and the
\* entity library is configured (CREATE_MISSING true, DEFAULT_SERVER_CONFIG
\* holding the server's get_url() and get_credentials() with verify
\* disabled), and the call that set the flag ran all reads and validations,
\* then logging, then third-party logging, then the entity-library
\* configuration, then the assignment of the flag.
C12_ConfiguredMeansEntitiesReady ==
    configured =>
        /\ validation_errors = <<>>
        /\ entity_state.CREATE_MISSING = TRUE
        /\ entity_state.DEFAULT_SERVER_CONFIG.set
        /\ entity_state.DEFAULT_SERVER_CONFIG.url = ServerSettings_get_url(server)
        /\ entity_state.DEFAULT_SERVER_CONFIG.auth = ServerSettings_get_credentials(server)
        /\ entity_state.DEFAULT_SERVER_CONFIG.verify = FALSE
        /\ logging_state.capture_warnings
        /\ effects["third_party"] >= 1
        /\ \E t \in threads : InConfigureOrder(trail[t])

\* configured from a source whose [server] section has a port and a scheme
C12_Witness ==
    /\ configured
    /\ entity_state.DEFAULT_SERVER_CONFIG.url = "http://h:8080"
    /\ entity_state.DEFAULT_SERVER_CONFIG.auth = <<PyStr("admin"), PyStr("changeme")>>
    /\ Finished("main")

(* ------------------------------------------------------------------ *)
\* ---- C13
\* the threads whose call completed step `label`
Ran(label) == {t \in threads : label \in Range(trail[t])}

\* thread t is inside configure(), past the check of the flag
Inside(t) == pc[t] # "idle"

\* the next statement of a thread that is inside configure()
Step(t) ==
    \/ CheckSettingsFile(t) \/ INIReader_init(t) \/ ReadRobottelo(t) \/ ReadServer(t)
    \/ ReadFeature(t) \/ CheckValidationErrors(t) \/ Settings_configure_logging(t)
    \/ Settings_configure_third_party_logging(t) \/ Settings_configure_entities(t)
    \/ MarkConfigured(t)

\* C13: the flag is the only thing configure() consults: a call is never made
\* to wait for a call of another thread, a thread that passed the check runs
\* every following statement whatever the other thread did meanwhile (also
\* once the flag is set), and every thread that completed a step performed
\* its writes itself, so the entity-library patches are applied once per
\* thread that reached them and a group is validated at least once per
\* thread that reached it.
C13_FlagIsTheOnlyExclusion ==
    /\ \A t \in threads :
          /\ pc[t] = "idle" /\ calls < MaxCalls => ENABLED ConfigureEnter(t)
          /\ Inside(t) => ENABLED Step(t)
    /\ entity_state.gpgkey_patches = Cardinality(Ran("entities"))
    /\ effects["DEFAULT_SERVER_CONFIG"] = Cardinality(Ran("entities"))
    /\ \A g \in Groups : validations[g] >= Cardinality(Ran(g))
    /\ file_reads >= Cardinality(Ran("reader"))

\* both threads passed the check before either set the flag, and both ran the
\* reads, the validations and the four statements that follow the error check
C13_Witness ==
    /\ \A t \in AllThreads :
          /\ Finished(t)
          /\ outcome[t] = [kind |-> "returned", exc |-> "", at |-> "mark", msg |-> <<>>]
          /\ {"server", "docker", "check", "logging", "entities"} \subseteq Range(trail[t])
    /\ reads["server"] = 2 /\ validations["server"] = 2
    /\ reads["docker"] = 2 /\ validations["docker"] = 2
    /\ file_reads = 2
    /\ effects["captureWarnings"] = 2
    /\ effects["third_party"] = 2
    /\ effects["DEFAULT_SERVER_CONFIG"] = 2
    /\ entity_state.gpgkey_patches = 2
    /\ entity_state.dockercr_patches = 2
    /\ configured

(* ------------------------------------------------------------------ *)
\* ---- C14
\* the source has the option (with any value, the empty one included)
Provided(rd, section, option) == <<section, option>> \in DOMAIN rd.opts

\* the step of thread t that reads group g and then validates it
Validates(t, g) == pc[t] = g /\ pc'[t] = After(g) /\ IsRead(reader, g)

\* the errors that step adds to the collected list
Added == SubSeq(validation_errors', Len(validation_errors) + 1, Len(validation_errors'))

\* an error list with message m when condition c holds, none otherwise
ErrorIf(c, m) == IF c THEN <<m>> ELSE <<>>

C14_HostnameError == "[server] hostname must be provided."

C14_SshError == "[server] ssh_key or ssh_password must be provided."

\* the server validation adds the hostname error exactly when the source has
\* no [server] hostname, the ssh error exactly when it has neither ssh_key
\* nor ssh_password, and nothing else
C14_ServerErrors ==
    [][\A t \in threads :
          Validates(t, "server") =>
              Added = ErrorIf(~Provided(reader, "server", "hostname"), C14_HostnameError)
                      \o ErrorIf(/\ ~Provided(reader, "server", "ssh_key")
                                 /\ ~Provided(reader, "server", "ssh_password"),
                                 C14_SshError)]_vars

\* a finished call on a source without [server] hostname
C14_NoHostnameCall(t) ==
    Finished(t) /\ PastReader(t) /\ ~Provided(reader, "server", "hostname")

C14_FailsWithHostnameMessage(t) ==
    /\ outcome[t].kind = "raised"
    /\ outcome[t].exc = "ImproperlyConfigured"
    /\ C14_HostnameError \in Range(outcome[t].msg)

Given(rd, section, option, default) ==
    IF Provided(rd, section, option) THEN rd.opts[<<section, option>>] ELSE default

Browser(rd) == Given(rd, "robottelo", "browser", "selenium")

WebDriver(rd) == Given(rd, "robottelo", "webdriver", "firefox")

C15_UserError == "[robottelo] saucelabs_user must be provided when browser is saucelabs."

C15_KeyError == "[robottelo] saucelabs_key must be provided when browser is saucelabs."

IsSauceLabsError(e) == e \in {C15_UserError, C15_KeyError}

\* C15: when [robottelo] browser is 'saucelabs', global validation yields one
\* distinct error for each of saucelabs_user and saucelabs_key that is
\* missing (two when both are, none when both are given); when browser is not
\* 'saucelabs', missing credentials produce no error.
C15_SauceLabsCredentials ==
    [][\A t \in threads :
          Validates(t, "robottelo") =>
              /\ SelectSeq(Added, IsSauceLabsError) =
                    IF Browser(reader) = "saucelabs"
                    THEN ErrorIf(~Provided(reader, "robottelo", "saucelabs_user"),
                                 C15_UserError)
                         \o ErrorIf(~Provided(reader, "robottelo", "saucelabs_key"),
                                    C15_KeyError)
                    ELSE <<>>
              /\ C15_UserError # C15_KeyError]_vars

\* browser is saucelabs and both credentials are missing: two errors
C15_Witness ==
    /\ pc["main"] = After("robottelo")
    /\ calls = 1
    /\ Browser(reader) = "saucelabs"
    /\ ~Provided(reader, "robottelo", "saucelabs_user")
    /\ ~Provided(reader, "robottelo", "saucelabs_key")
    /\ validation_errors = <<C15_UserError, C15_KeyError>>

\* ---- C16
C16_Browsers == {"selenium", "docker", "saucelabs"}

C16_WebDrivers == {"chrome", "firefox", "ie", "phantomjs", "remote"}

C16_BrowserError == "[robottelo] browser should be one of selenium, docker, saucelabs."

C16_WebDriverError ==
    "[robottelo] webdriver should be one of chrome, firefox, ie, phantomjs, remote."

IsChoiceError(e) == e \in {C16_BrowserError, C16_WebDriverError}

\* C16: global validation yields a browser error if and only if browser is
\* not one of 'selenium', 'docker', 'saucelabs', and a webdriver error if and
\* only if webdriver is not one of 'chrome', 'firefox', 'ie', 'phantomjs',
\* 'remote'; each check is made whatever the outcome of the other.
C16_BrowserAndWebDriver ==
    [][\A t \in threads :
          Validates(t, "robottelo") =>
              SelectSeq(Added, IsChoiceError) =
                  ErrorIf(Browser(reader) \notin C16_Browsers, C16_BrowserError)
                  \o ErrorIf(WebDriver(reader) \notin C16_WebDrivers, C16_WebDriverError)]_vars

\* neither the browser nor the webdriver is an accepted one: both errors
C16_Witness ==
    /\ pc["main"] = After("robottelo")
    /\ calls = 1
    /\ Browser(reader) = "opera"
    /\ WebDriver(reader) = "lynx"
    /\ validation_errors = <<C16_BrowserError, C16_WebDriverError>>

(* ------------------------------------------------------------------ *)
\* ---- C17
\* the source switches [docker] unix_socket on
UnixSocketEnabled(rd) ==
    /\ Provided(rd, "docker", "unix_socket")
    /\ cast_boolean(rd.opts[<<"docker", "unix_socket">>]) = PyBool(TRUE)

\* the source has the option with a value that is not empty
NonEmpty(rd, section, option) ==
    Provided(rd, section, option) /\ rd.opts[<<section, option>>] # ""

C17_DockerError ==
    "Either [docker] unix_socket or external_url options must be provided or enabled."

\* C17: with a [docker] section present, Docker validation yields exactly one
\* error when unix_socket is false or absent and external_url is absent or
\* empty, and no error when at least one of the two is truthy.
C17_DockerEitherOr ==
    [][\A t \in threads :
          Validates(t, "docker") =>
              Added = ErrorIf(/\ ~UnixSocketEnabled(reader)
                              /\ ~NonEmpty(reader, "docker", "external_url"),
                              C17_DockerError)]_vars

\* unix_socket switched off and an empty external_url: the one error
C17_Witness ==
    /\ pc["main"] = After("docker")
    /\ calls = 1
    /\ Provided(reader, "docker", "unix_socket")
    /\ Provided(reader, "docker", "external_url")
    /\ validations["docker"] = 1
    /\ validation_errors = <<C17_DockerError>>

\* ---- C18
AllOrNothing == {"fake_manifest", "ldap", "vlan_networking"}

OptionsOf(g) ==
    CASE g = "fake_manifest" -> {"cert_url", "key_url", "url"}
      [] g = "ldap" -> {"basedn", "grpbasedn", "hostname", "password", "username"}
      [] g = "vlan_networking" -> {"subnet", "netmask", "gateway", "bridge"}

AllOrNothingMessage(g) ==
    CASE g = "fake_manifest" ->
            "All [fake_manifest] cert_url, key_url, url options must be provided."
      [] g = "ldap" ->
            "All [ldap] basedn, grpbasedn, hostname, password, username options must be provided."
      [] g = "vlan_networking" ->
            "All [vlan_networking] subnet, netmask, gateway, bridge options must be provided."

\* C18: for the ldap, vlan_networking and fake_manifest groups, when the
\* section is present validation yields exactly one error if any field of
\* the group is missing or empty, and no error only when every field is
\* non-empty.
C18_AllOrNothingGroups ==
    [][\A t \in threads : \A g \in AllOrNothing :
          Validates(t, g) =>
              Added = ErrorIf(\E o \in OptionsOf(g) : ~NonEmpty(reader, g, o),
                              AllOrNothingMessage(g))]_vars

\* every [ldap] option is in the source, one of them with an empty value
C18_Witness ==
    /\ pc["main"] = After("ldap")
    /\ calls = 1
    /\ \A o \in OptionsOf("ldap") : Provided(reader, "ldap", o)
    /\ \E o \in OptionsOf("ldap") : ~NonEmpty(reader, "ldap", o)
    /\ validation_errors = <<AllOrNothingMessage("ldap")>>

\* ---- C19
C19_Required ==
    <<"cdn_address", "virtual_machines", "fresh_install_savepoint", "enabled_repos_savepoint">>

C19_Others == {"time_hammer", "csv_buckets_count", "sync_count", "sync_type", "repos"}

C19_Message(option) == "[performance] " \o option \o " must be provided."

RECURSIVE C19_Missing(_, _)
C19_Missing(rd, i) ==
    IF i = 0 THEN <<>>
    ELSE C19_Missing(rd, i - 1)
         \o ErrorIf(~Provided(rd, "performance", C19_Required[i]),
                    C19_Message(C19_Required[i]))

\* C19: with a [performance] section present, validation yields one separate
\* error for each of cdn_address, virtual_machines, fresh_install_savepoint
\* and enabled_repos_savepoint that is not provided, whatever the source
\* holds for time_hammer, csv_buckets_count, sync_count, sync_type and repos.
C19_PerformanceRequired ==
    [][\A t \in threads :
          Validates(t, "performance") =>
              Added = C19_Missing(reader, Len(C19_Required))]_vars

\* two of the four are missing while the other five options are all set
C19_Witness ==
    /\ pc["main"] = After("performance")
    /\ calls = 1
    /\ \A o \in C19_Others : Provided(reader, "performance", o)
    /\ validation_errors =
          <<C19_Message("cdn_address"), C19_Message("fresh_install_savepoint")>>

(* ------------------------------------------------------------------ *)
\* ---- C20
\* the configured scheme, or 'https' when the source sets none
C20_Scheme(rd) ==
    IF NonEmpty(rd, "server", "scheme") THEN rd.opts[<<"server", "scheme">>] ELSE "https"

\* scheme://hostname, followed by :port when the source configures a port
C20_Url(rd) ==
    C20_Scheme(rd) \o "://" \o Given(rd, "server", "hostname", "")
    \o (IF Provided(rd, "server", "port")
        THEN ":" \o rd.opts[<<"server", "port">>] ELSE "")

\* C20: once the entity library holds the server's get_url(), that URL is
\* scheme + '://' + hostname, followed by ':' + port when a port is
\* configured, the scheme being the configured one or 'https' when unset,
\* whatever the port.
C20_Original ==
    entity_state.DEFAULT_SERVER_CONFIG.set =>
        /\ ServerSettings_get_url(server) = C20_Url(reader)
        /\ entity_state.DEFAULT_SERVER_CONFIG.url = C20_Url(reader)

(* ------------------------------------------------------------------ *)
\* ---- C21
\* the reader holds a source with only [server] hostname and ssh_password
C21_MinimalSource ==
    /\ reader # NoReader
    /\ reader.secs = {"server"}
    /\ DOMAIN reader.opts = {<<"server", "hostname">>, <<"server", "ssh_password">>}

Returned(op) == got' # got /\ got'.op = op

\* what get() is to return for query q on source rd: the default as passed
\* when the section or the option is absent, otherwise the raw string, or
\* what the caster selected by the cast makes of it
C22_Expected(rd, q) ==
    IF q.section \notin rd.secs \/ <<q.section, q.option>> \notin DOMAIN rd.opts
    THEN q.default
    ELSE LET raw == rd.opts[<<q.section, q.option>>]
         IN  CASE q.cast = "none" -> PyStr(raw)
               [] q.cast = "bool" -> cast_boolean(raw)
               [] q.cast = "dict" -> cast_dict(raw)
               [] q.cast = "list" -> cast_list(raw)
               [] q.cast = "tuple" -> cast_tuple(raw)
               [] q.cast = "int" -> cast_int(raw)
               [] q.cast = "logging_level" -> cast_logging_level(raw)
               [] q.cast = "capabilities" -> cast_webdriver_desired_capabilities(raw)

\* C22: INIReader.get(section, option, default, cast) returns `default` as
\* passed, with no cast applied, when the section or the option is absent;
\* when the option is present it returns the raw string if no cast is given
\* and otherwise the result of the cast, bool, dict, list and tuple standing
\* for the Boolean, Dict, List and Tuple casters; it never modifies the reader.
C22_GetSemantics ==
    [][Returned("get") =>
          /\ got'.value = C22_Expected(reader, got')
          /\ reader' = reader
          /\ UNCHANGED Settled]_vars

\* the source has a [server] section without port: the string default comes
\* back as it was passed although the cast is int
C22_Witness ==
    /\ reader.open
    /\ "server" \in reader.secs
    /\ <<"server", "port">> \notin DOMAIN reader.opts
    /\ got = Query("get", "server", "port", PyStr("true"), "int", PyStr("true"))

(* ------------------------------------------------------------------ *)
\* ---- C23
\* thread t runs the entity-library configuration
ConfiguresEntities(t) == pc[t] = "entities" /\ pc'[t] = After("entities")

\* the URL the claim gives the Docker compute resource, from the docker group
C23_Url ==
    IF features["docker"].unix_socket = PyBool(TRUE)
    THEN PyStr("unix:///var/run/docker.sock")
    ELSE features["docker"].external_url

\* the URL decides about the DockerComputeResource patch, GPGKey is patched
C23_Patches ==
    \A t \in threads :
        ConfiguresEntities(t) =>
            /\ entity_state'.gpgkey_patches = entity_state.gpgkey_patches + 1
            /\ IF C23_Url # PyNone
               THEN /\ entity_state'.dockercr_patches = entity_state.dockercr_patches + 1
                    /\ entity_state'.dockercr_url = C23_Url
               ELSE /\ entity_state'.dockercr_patches = entity_state.dockercr_patches
                    /\ entity_state'.dockercr_url = entity_state.dockercr_url

C24_UnixSocketUrl ==
    [][Returned("get_unix_socket_url") =>
          /\ got'.value = IF features["docker"].unix_socket = PyBool(TRUE)
                          THEN PyStr("unix:///var/run/docker.sock") ELSE PyNone
          /\ UNCHANGED Settled]_vars

\* asked after [docker] unix_socket was read as false: the answer is None, as
\* it is before the group is read
C24_Witness ==
    /\ got.op = "get_unix_socket_url"
    /\ got.value = PyNone
    /\ reads["docker"] = 1
    /\ features["docker"].unix_socket = PyBool(FALSE)

\* ---- C25
C25_Hostname == IF server.hostname = PyNone THEN "" ELSE server.hostname.s

C25_PubUrl == "http://" \o C25_Hostname \o "/pub/"

\* C25: ServerSettings.get_pub_url() returns 'http://<hostname>/pub/'
\* whatever the configured scheme and port, get_cert_rpm_url() returns that
\* URL followed by 'katello-ca-consumer-latest.noarch.rpm', and neither
\* changes any state.
C25_PubAndCertUrls ==
    [][/\ Returned("get_pub_url") =>
             got'.value = PyStr(C25_PubUrl) /\ UNCHANGED Settled
       /\ Returned("get_cert_rpm_url") =>
             /\ got'.value = PyStr(C25_PubUrl \o "katello-ca-consumer-latest.noarch.rpm")
             /\ UNCHANGED Settled]_vars

\* the server has a port and the default scheme is not used: the certificate
\* URL ignores both
C25_Witness ==
    /\ server.port = PyInt(8080)
    /\ server.hostname = PyStr("h")
    /\ got.op = "get_cert_rpm_url"
    /\ got.value = PyStr("http://h/pub/katello-ca-consumer-latest.noarch.rpm")

(* ------------------------------------------------------------------ *)
\* ---- C26
C26_RobotteloDefaults ==
    {<<"browser", PyStr("selenium")>>, <<"locale", PyStr("en_US.UTF-8")>>,
     <<"project", PyStr("sat")>>, <<"verbosity", PyInt(LoggingLevels["debug"])>>,
     <<"webdriver", PyStr("firefox")>>, <<"upstream", PyBool(TRUE)>>,
     <<"run_one_datapoint", PyBool(FALSE)>>}

C26_ServerDefaults ==
    {<<"scheme", PyStr("https")>>, <<"ssh_username", PyStr("root")>>,
     <<"admin_username", PyStr("admin")>>, <<"admin_password", PyStr("changeme")>>,
     <<"hostname", PyNone>>, <<"port", PyNone>>, <<"ssh_key", PyNone>>,
     <<"ssh_password", PyNone>>}

\* C26: once the global options, or the server group, have been read, every
\* listed option that is absent from the source holds its hardcoded default:
\* browser 'selenium', locale 'en_US.UTF-8', project 'sat', verbosity the
\* debug level, webdriver 'firefox', upstream true, run_one_datapoint false;
\* scheme 'https', ssh_username 'root', admin_username 'admin',
\* admin_password 'changeme'; None for hostname, port, ssh_key, ssh_password.
C26_HardcodedDefaults ==
    [][\A t \in threads :
          /\ Validates(t, "robottelo") =>
                \A d \in C26_RobotteloDefaults :
                    ~Provided(reader, "robottelo", d[1]) => options'[d[1]] = d[2]
          /\ Validates(t, "server") =>
                \A d \in C26_ServerDefaults :
                    ~Provided(reader, "server", d[1]) => server'[d[1]] = d[2]]_vars

\* a [server] section with a hostname but no scheme, port or ssh_key, and no
\* [robottelo] section: the fields hold the defaults
C26_Witness ==
    /\ pc["main"] = After("server")
    /\ Provided(reader, "server", "hostname")
    /\ ~Provided(reader, "server", "scheme")
    /\ ~Provided(reader, "server", "port")
    /\ ~Provided(reader, "server", "ssh_key")
    /\ "robottelo" \notin reader.secs
    /\ server.scheme = PyStr("https") /\ server.port = PyNone /\ server.ssh_key = PyNone
    /\ server.ssh_username = PyStr("root")
    /\ options.browser = PyStr("selenium") /\ options.upstream = PyBool(TRUE)
    /\ options.verbosity = PyInt(10)

(* ------------------------------------------------------------------ *)
\* ---- C27
\* sequence a is the beginning of sequence b
Prefix(a, b) == Len(a) <= Len(b) /\ SubSeq(b, 1, Len(a)) = a

\* thread t has finished a call that found errors of an earlier call in the list
C27_LaterCall(t) == Finished(t) /\ entry[t].errors # <<>>

\* the list never loses an error, and the flag is never true beside one
C27_NeverCleared ==
    /\ [][Prefix(validation_errors, validation_errors')]_vars
    /\ [](validation_errors # <<>> => ~configured)

\* the source of t's call was read and no cast rejects any of its values
C27_SourceValidates(t) ==
    /\ PastReader(t)
    /\ \A g \in Groups : IsRead(reader, g) => FailingCasts(reader, g) = {}

\* the claim as stated: every later call raises ImproperlyConfigured with the
\* earlier errors in its message
C27_Original ==
    /\ C27_NeverCleared
    /\ [](\A t \in threads :
            C27_LaterCall(t) =>
                /\ outcome[t].kind = "raised"
                /\ outcome[t].exc = "ImproperlyConfigured"
                /\ Range(entry[t].errors) \subseteq Range(outcome[t].msg))

\* C27: the validation-error list is never cleared: the errors collected by a
\* failed call remain, so every later configure() call on the instance fails
\* and `configured` never becomes true; a later call that gets to the error
\* check, as every call on a source that is read and whose casts succeed
\* does, raises ImproperlyConfigured with the earlier errors repeated in the
\* message, even when the source now validates without error; a later call
\* that fails before the check (missing file, Reader construction, failing
\* cast) raises that failure's own error.
C27_ErrorsAreNeverCleared ==
    /\ C27_NeverCleared
    /\ [](\A t \in threads :
            C27_LaterCall(t) =>
                /\ outcome[t].kind = "raised"
                /\ ~configured
                /\ Prefix(entry[t].errors, validation_errors)
                /\ outcome[t].at \in {"isfile", "reader", "check"} \cup Groups
                /\ outcome[t].at = "check" =>
                      /\ outcome[t].exc = "ImproperlyConfigured"
                      /\ outcome[t].msg = ValidationMessage(validation_errors)
                /\ C27_SourceValidates(t) => outcome[t].at = "check")

\* the second call reads a source that validates without error and raises
\* with nothing but the errors of the first call
C27_Witness ==
    /\ calls = 2
    /\ C27_LaterCall("main")
    /\ C21_MinimalSource
    /\ validations["server"] = 2
    /\ validation_errors = entry["main"].errors
    /\ outcome["main"] = [kind |-> "raised", exc |-> "ImproperlyConfigured", at |-> "check",
                          msg |-> ValidationMessage(entry["main"].errors)]

(* ------------------------------------------------------------------ *)
\* ---- C28
\* thread t has finished a call that failed after the Reader was constructed
C28_FailedAfterReader(t) == Finished(t) /\ outcome[t].kind = "raised" /\ PastReader(t)

\* the fields of group g as read() assigns them from source rd
AsRead(rd, g) ==
    CASE g = "robottelo" ->
            ReadInto(Settings_options_init, Settings_read_robottelo_settings, rd, 1).obj
      [] g = "server" -> ReadInto(ServerSettings_init, ServerSettings_read, rd, 1).obj
      [] OTHER -> ReadInto(Feature_init(g), Feature_read(g), rd, 1).obj

\* the fields group g has now
Fields(g) ==
    CASE g = "robottelo" -> options
      [] g = "server" -> server
      [] OTHER -> features[g]

\* the reader and every group the call read before it failed hold what was
\* read, the errors collected stay in the list, and the flag and the entity
\* library are as the call found them
C28_Kept(t) ==
    /\ reader.open
    /\ \A g \in Groups \cap Range(trail[t]) : Fields(g) = AsRead(reader, g)
    /\ Prefix(entry[t].errors, validation_errors)
    /\ outcome[t].at = "check" =>
          /\ validation_errors = entry[t].errors \o ExpectedErrors(reader)
          /\ validation_errors # <<>>
    /\ configured = entry[t].configured
    /\ ~configured
    /\ entity_state = entry[t].entity_state

\* the claim as stated: the process-wide state of the logging setup too is
\* as the call found it
C28_Original ==
    \A t \in threads :
        C28_FailedAfterReader(t) =>
            C28_Kept(t) /\ logging_state = entry[t].logging_state

\* C28: a configure() call that fails after Reader construction does not
\* restore instance state: the reader, the global options, the server group
\* and every optional group read before the failure keep the values read
\* from the source, and the errors collected so far stay in the list;
\* `configured` and the entity-library globals are as they were before the
\* call, and so is the logging state unless the call failed inside the
\* logging setup, which has then switched on the capture of warnings.
C28_FailureKeepsWhatWasRead ==
    \A t \in threads :
        C28_FailedAfterReader(t) =>
            /\ C28_Kept(t)
            /\ IF outcome[t].at = "logging"
               THEN /\ logging_state.capture_warnings
                    /\ logging_state.third_party = entry[t].logging_state.third_party
               ELSE logging_state = entry[t].logging_state

\* the call read the clients group and failed at the error check: the group
\* holds what was read and its error is in the list
C28_Witness ==
    /\ calls = 1
    /\ C28_FailedAfterReader("main")
    /\ outcome["main"].at = "check"
    /\ "clients" \in Range(trail["main"])
    /\ features["clients"].image_dir = PyStr("/opt/robottelo/images")
    /\ validation_errors = ExpectedErrors(reader)
    /\ "[clients] provisioning_server option must be provided." \in Range(validation_errors)

(* ------------------------------------------------------------------ *)
\* ---- C29
\* the groups with a single required option, that option and their error
SingleRequired == {"clients", "compute_resources", "discovery", "oscap", "transition"}

Required(g) ==
    CASE g = "clients" -> "provisioning_server"
      [] g = "compute_resources" -> "libvirt_hostname"
      [] g = "discovery" -> "discovery_iso"
      [] g = "oscap" -> "content_path"
      [] g = "transition" -> "exported_data"

RequiredMessage(g) ==
    CASE g = "clients" -> "[clients] provisioning_server option must be provided."
      [] g = "compute_resources" ->
            "[compute_resources] libvirt_hostname option must be provided."
      [] g = "discovery" -> "[discovery] discovery iso name must be provided."
      [] g = "oscap" -> "[oscap] content_path option must be provided."
      [] g = "transition" -> "[transition] exported_data must be provided."

\* the source has the option, with an empty value
Empty(rd, section, option) ==
    Provided(rd, section, option) /\ rd.opts[<<section, option>>] = ""

\* source rd without its options of empty value
WithoutEmpty(rd) ==
    [rd EXCEPT !.opts = [k \in {j \in DOMAIN rd.opts : rd.opts[j] # ""} |-> rd.opts[k]]]

\* the groups whose validation tests the truth of the values
TruthTested == AllOrNothing \cup {"docker"}

\* C29: server validation and the single-required-field checks test for
\* absence only: an option that is in the source with an empty value counts
\* as provided and produces no error (an empty [server] hostname, an empty
\* ssh_key), whereas the validation of ldap, vlan_networking, fake_manifest
\* and docker yields for an empty value what it yields for a missing one.
C29_AbsenceOrEmptiness ==
    [][\A t \in threads :
          /\ Validates(t, "server") =>
                Added = ErrorIf(~Provided(reader, "server", "hostname"),
                                "[server] hostname must be provided.")
                        \o ErrorIf(/\ ~Provided(reader, "server", "ssh_key")
                                   /\ ~Provided(reader, "server", "ssh_password"),
                                   "[server] ssh_key or ssh_password must be provided.")
          /\ \A g \in SingleRequired :
                Validates(t, g) /\ Empty(reader, g, Required(g)) => Added = <<>>
          /\ \A g \in TruthTested :
                Validates(t, g) =>
                    /\ Added = Feature_validate(g, AsRead(WithoutEmpty(reader), g))
                    /\ g \in AllOrNothing /\ (\E o \in OptionsOf(g) : Empty(reader, g, o))
                          => Added # <<>>
                    /\ g = "docker" /\ Empty(reader, g, "external_url")
                          /\ ~UnixSocketEnabled(reader) => Added # <<>>]_vars

\* [server] has an empty hostname, an empty ssh_key and no ssh_password, and
\* its validation found no error
C29_Witness ==
    /\ pc["main"] = After("server")
    /\ calls = 1
    /\ Empty(reader, "server", "hostname")
    /\ Empty(reader, "server", "ssh_key")
    /\ ~Provided(reader, "server", "ssh_password")
    /\ server.hostname = PyStr("")
    /\ validations["server"] = 1
    /\ validation_errors = <<>>

(* ------------------------------------------------------------------ *)
\* ---- C30
\* C30: when their section is present, clients, compute_resources,
\* discovery, oscap and transition each yield exactly one error if and only
\* if their single required option is absent, whatever their defaulted
\* options; the rhai step never raises and never adds an error, so a
\* present [rhai] section cannot make configure() fail.
C30_SingleRequiredOption ==
    [][\A t \in threads :
          /\ \A g \in SingleRequired :
                pc[t] = g /\ IsRead(reader, g) =>
                    /\ pc'[t] = After(g)
                    /\ Added = ErrorIf(~Provided(reader, g, Required(g)), RequiredMessage(g))
          /\ pc[t] = "rhai" =>
                /\ pc'[t] = After("rhai")
                /\ validation_errors' = validation_errors
                /\ outcome'[t] = outcome[t]]_vars

\* [clients] gives image_dir but no provisioning_server: the one error
C30_Witness ==
    /\ pc["main"] = After("clients")
    /\ calls = 1
    /\ Provided(reader, "clients", "image_dir")
    /\ ~Provided(reader, "clients", "provisioning_server")
    /\ features["clients"].image_dir = PyStr("/img")
    /\ validation_errors = <<RequiredMessage("clients")>>

====
